---- MODULE Spec2Model ----
(***************************************************************************)
(* A model of the CodeRabbit PR analyzer extension                         *)
(* (src/extension/github-api.js, class GitHubAPI, first definition in the  *)
(* file, lines 1-462).                                                     *)
(*                                                                         *)
(*   SpecRetry   : one call of fetchWithRetry(url)                         *)
(*   SpecPages   : one call of fetchAllPages(baseUrl)                      *)
(*   SpecAnalyze : one call of analyzePRs(progressCallback)                *)
(*   SpecParse   : one call of parseActionableIssue(body)                  *)
(*   SpecSimilarity : one call of calculateSimilarity(title1, title2)      *)
(*   SpecCluster : extractTitles(data), then groupSimilarTitles again      *)
(*   SpecFilter  : the side panel's results and its filter buttons         *)
(***************************************************************************)
EXTENDS Integers, Sequences, FiniteSets, TLC

VARIABLES
    \* ---- fetchWithRetry ----
    token,               \* this.token ("" when no credential is configured)
    i,                   \* the loop index of fetchWithRetry
    fpc,                 \* "fetch" | "backoff" | "returned" | "thrown"
    sent,                \* the requests issued so far (their Authorization header)
    responses,           \* what the network answered to each request, in order
    waits,               \* the setTimeout delays (ms) scheduled so far
    fetchResult,         \* the value returned or the error thrown
    rateLimitRemaining,  \* this.rateLimitRemaining
    \* ---- fetchAllPages ----
    server,              \* what the remote side holds (environment)
    results,             \* let results
    page,                \* let page
    hasMore,             \* let hasMore
    ppc,                 \* "loop" | "returned" | "thrown"
    requested,           \* the page numbers requested so far, in order
    received,            \* the item lists of the bodies received so far, in order
    \* ---- analyzePRs ----
    env,                 \* what each PR holds on the remote side (environment)
    apc,                 \* "start" | "search" | "inflight" | "delay" | "done" | "failed"
    filteredPRs,         \* const filteredPRs (the PR numbers, in search order)
    bi,                  \* the batch loop's index i
    batch,               \* const batch
    batchResults,        \* the values the batch's promises resolved to, by position
    settled,             \* the positions of the batch whose promise has settled
    prsWithIssues,       \* const prsWithIssues
    totalActionableIssues,
    processedCount,
    progress,            \* the arguments of the progressCallback calls, in order
    result,              \* the value analyzePRs returned
    batches,             \* the batches started so far, in order
    inflight,            \* the PRs whose processing has started and not ended
    processed,           \* the PRs whose processing has ended
    delays,              \* the inter-batch setTimeout delays (ms) so far
    \* ---- parseActionableIssue ----
    commentBody,         \* the body handed to parseActionableIssue
    parsedIssue,         \* the value it returned
    xpc,                 \* "call" | "returned"
    \* ---- calculateSimilarity ----
    title1,              \* the first argument
    title2,              \* the second argument
    similarity,          \* the value it returned, as a fraction
    spc,                 \* "call" | "returned"
    \* ---- extractTitles / groupSimilarTitles ----
    currentData,         \* the analysis result the titles are taken from
    titleGroups,         \* the groups last built from it
    regrouped,           \* groupSimilarTitles applied to those groups again
    cpc,                 \* "call" | "returned" | "regrouped"
    \* ---- the priority / acceptance filter of the side panel ----
    selectedPriorities,       \* the Set shared with the click handlers
    selectedAcceptanceStatus, \* "all" | "accepted" | "not-accepted"
    activeAcceptance,         \* the acceptance buttons that carry the class 'active'
    lastClick,                \* the button clicked last since the results were shown,
                              \* and the number of click handlers that ran for it
    vpc,                      \* "loaded" | "shown"
    shownCounts,              \* the counts the filter buttons show
    registrations,            \* the click handlers on each of the buttons kept
    \* ---- the manual acceptance overrides ----
    manualAcceptance,    \* chrome.storage.local's value under the key 'manualAcceptance'
    toggling,            \* the toggleManualAcceptance calls waiting for their save, each
                         \* with its copy of the store and whether another call ran
                         \* while it waited
    completed,           \* the last two operations that ran to their end, oldest first
    dataBefore,          \* currentData as it was before each of those two
    storeBefore,         \* manualAcceptance as it was before each of those two
    applied,             \* applyManualAcceptanceState has run on currentData
    \* ---- the requests of an analysis ----
    GITHUB_TOKEN,        \* const GITHUB_TOKEN = window.CONFIG?.GITHUB_TOKEN || ''
    requests,            \* the fetch calls so far: the API and the Authorization header
    \* ---- handleAnalyze ----
    form,                \* the values of the four inputs of the side panel
    clock,               \* the time of the click and the time zone of the browser
    hpc,                 \* "form" | "error" | "analyzing"
    shownError,          \* the message showError was called with
    searchQuery          \* the repository and the created: range of the search

retryVars == <<token, i, fpc, sent, responses, waits, fetchResult, rateLimitRemaining>>
pageVars  == <<server, results, page, hasMore, ppc, requested, received>>
analyzeVars == <<env, apc, filteredPRs, bi, batch, batchResults, settled,
                 prsWithIssues, totalActionableIssues, processedCount, progress,
                 result, batches, inflight, processed, delays>>
parseVars == <<commentBody, parsedIssue, xpc>>
simVars   == <<title1, title2, similarity, spc>>
dataVars  == <<currentData, titleGroups>>
clusterVars == <<regrouped, cpc>>
filterVars == <<selectedPriorities, selectedAcceptanceStatus, activeAcceptance,
                lastClick, vpc, shownCounts, registrations>>
overrideVars == <<manualAcceptance, toggling, completed, dataBefore, storeBefore, applied>>
requestVars == <<GITHUB_TOKEN, requests>>
validateVars == <<form, clock, hpc, shownError, searchQuery>>
panelVars == <<parseVars, simVars, dataVars, clusterVars, filterVars, overrideVars, requestVars,
               validateVars>>
vars      == <<retryVars, pageVars, analyzeVars, panelVars>>

\* JavaScript's null / undefined
Null      == "null"
Undefined == "undefined"

Min(a, b) == IF a <= b THEN a ELSE b
Max(a, b) == IF a >= b THEN a ELSE b
\* Math.ceil(a / b) for a >= 0, b > 0
Ceil(a, b) == (a + b - 1) \div b

(***************************************************************************)
(* fetchWithRetry                                                          *)
(***************************************************************************)
retries == 3

\* The credentials an analysis may be configured with.
Tokens == {"", "ghp_secret"}

\* What one fetch(url) can produce: the promise rejects (no response at all),
\* or a response with a status, the two rate-limit headers and a body that
\* parses as JSON or does not.
HttpResponse(status, remaining, reset, json) ==
    [kind |-> "http", status |-> status, remaining |-> remaining,
     reset |-> reset, json |-> json]
Rejected == [kind |-> "reject", status |-> 0, remaining |-> Null,
             reset |-> Null, json |-> FALSE]

Responses ==
    { Rejected,
      HttpResponse(200, "4999", "1700", TRUE),
      HttpResponse(200, "4999", "1700", FALSE),
      HttpResponse(401, "4999", "1700", TRUE),
      HttpResponse(404, "4999", "1700", TRUE),
      HttpResponse(500, "4999", "1700", TRUE) }
    \cup { HttpResponse(403, rem, rst, TRUE) :
             rem \in {Null, "0", "4999"}, rst \in {Null, "", "1700"} }

\* parseInt on the header values the model uses
ParseInt(s) ==
    CASE s = "0"    -> 0
      [] s = "1700" -> 1700
      [] s = "4999" -> 4999
      [] OTHER      -> -1

\* JavaScript truthiness of a header value (null and "" are falsy)
Truthy(s) == s # Null /\ s # ""

\* response.ok
ResponseOk(status) == status >= 200 /\ status <= 299

\* headers['Authorization'], set only when this.token is truthy
AuthorizationHeader(tok) == IF Truthy(tok) THEN "token " \o tok ELSE Undefined

Err(name, resetTime) == [threw |-> TRUE, name |-> name, resetTime |-> resetTime]
Body                 == [threw |-> FALSE, name |-> "json", resetTime |-> -1]
NoResult             == [threw |-> FALSE, name |-> "none", resetTime |-> -1]

\* The body of the try block for one response: the value it returns or the
\* error it throws.
TryBlock(resp) ==
    IF resp.kind = "reject" THEN Err("NetworkError", -1)
    ELSE IF resp.status = 403 THEN
        IF resp.remaining = "0" /\ Truthy(resp.reset)
        THEN Err("RateLimitExceeded", ParseInt(resp.reset) * 1000)
        ELSE Err("Forbidden", -1)
    ELSE IF resp.status = 401 THEN Err("AuthRequired", -1)
    ELSE IF resp.status = 404 THEN Err("NotFound", -1)
    ELSE IF ~ResponseOk(resp.status) THEN Err("HttpError", -1)
    ELSE IF ~resp.json THEN Err("SyntaxError", -1)
    ELSE Body

\* catch: rethrow on the last attempt
LastAttempt(k) == k = retries - 1

\* catch: the delay before the next attempt
MutBackoffMs(k) == 1000 * k
BackoffMs(k) == 1000 * (k + 1)

\* One pass of the loop body up to its first suspension after the response.
Fetch(resp) ==
    /\ fpc = "fetch"
    /\ sent' = Append(sent, AuthorizationHeader(token))
    /\ responses' = Append(responses, resp)
    /\ rateLimitRemaining' =
         IF resp.kind = "reject" THEN rateLimitRemaining ELSE resp.remaining
    /\ LET out == TryBlock(resp) IN
         IF ~out.threw
         THEN /\ fpc' = "returned"
              /\ fetchResult' = out
              /\ waits' = waits
         ELSE IF LastAttempt(i)
         THEN /\ fpc' = "thrown"
              /\ fetchResult' = out
              /\ waits' = waits
         ELSE /\ fpc' = "backoff"
              /\ fetchResult' = fetchResult
              /\ waits' = Append(waits, BackoffMs(i))
    /\ UNCHANGED <<token, i>>

\* The backoff timer fires: i++ and the loop condition.
BackoffDone ==
    /\ fpc = "backoff"
    /\ i' = i + 1
    /\ IF i + 1 < retries
       THEN fpc' = "fetch" /\ fetchResult' = fetchResult
       ELSE fpc' = "returned" /\ fetchResult' = [NoResult EXCEPT !.name = Undefined]
    /\ UNCHANGED <<token, sent, responses, waits, rateLimitRemaining>>

RetryInit ==
    /\ token \in Tokens
    /\ i = 0
    /\ fpc = "fetch"
    /\ sent = <<>>
    /\ responses = <<>>
    /\ waits = <<>>
    /\ fetchResult = NoResult
    /\ rateLimitRemaining = Null

RetryIdle ==
    /\ token = ""
    /\ i = 0
    /\ fpc = "idle"
    /\ sent = <<>>
    /\ responses = <<>>
    /\ waits = <<>>
    /\ fetchResult = NoResult
    /\ rateLimitRemaining = Null

PagesIdle ==
    /\ server = Null
    /\ results = <<>>
    /\ page = 1
    /\ hasMore = TRUE
    /\ ppc = "idle"
    /\ requested = <<>>
    /\ received = <<>>

\* A result slot holding null (also the value of an unused slot).
NullResult == [isNull |-> TRUE, number |-> 0, actionableIssues |-> <<>>]
NoReturn   == [returned |-> FALSE]

AnalyzeIdle ==
    /\ env = <<>>
    /\ apc = "idle"
    /\ filteredPRs = <<>>
    /\ bi = 0
    /\ batch = <<>>
    /\ batchResults = <<>>
    /\ settled = {}
    /\ prsWithIssues = <<>>
    /\ totalActionableIssues = 0
    /\ processedCount = 0
    /\ progress = <<>>
    /\ result = NoReturn
    /\ batches = <<>>
    /\ inflight = {}
    /\ processed = {}
    /\ delays = <<>>

\* No side-panel or parser call is under way.
NoBody    == [isNull |-> TRUE, text |-> <<>>]
NoIssue   == [isNull |-> TRUE, severity |-> <<>>, priority |-> <<>>, title |-> <<>>,
              description |-> <<>>, accepted |-> FALSE, acceptanceMethod |-> Null]
ParseIdle ==
    /\ commentBody = NoBody
    /\ parsedIssue = NoIssue
    /\ xpc = "idle"
NoSimilarity == [num |-> 0, den |-> 0]
SimIdle ==
    /\ title1 = <<>>
    /\ title2 = <<>>
    /\ similarity = NoSimilarity
    /\ spc = "idle"
NoData == [repository |-> "", pullRequests |-> <<>>]
DataIdle ==
    /\ currentData = NoData
    /\ titleGroups = <<>>
ClusterIdle ==
    /\ regrouped = <<>>
    /\ cpc = "idle"
NoClick == [button |-> "none", value |-> "", handlers |-> 0]
\* the counts of the page before any result is shown
NoCounts ==
    [all |-> 0, priority |-> <<>>, acceptanceAll |-> 0, accepted |-> 0, notAccepted |-> 0]
FilterIdle ==
    /\ shownCounts = NoCounts
    /\ registrations = 0
    /\ selectedPriorities = {"all"}
    /\ selectedAcceptanceStatus = "all"
    /\ activeAcceptance = {}
    /\ lastClick = NoClick
    /\ vpc = "idle"
NoOperation == [op |-> "none", url |-> 0, overlapped |-> FALSE]
OverrideIdle ==
    /\ manualAcceptance = <<>>
    /\ toggling = <<>>
    /\ completed = <<NoOperation, NoOperation>>
    /\ dataBefore = <<NoData, NoData>>
    /\ storeBefore = <<<<>>, <<>>>>
    /\ applied = FALSE
RequestsIdle ==
    /\ GITHUB_TOKEN = ""
    /\ requests = <<>>
\* the value of a date input that holds no date
NoDate == [y |-> 0, m |-> 0, d |-> 0]
NoForm == [organization |-> <<>>, repository |-> <<>>, startDate |-> NoDate, endDate |-> NoDate]
NoQuery == [repo |-> <<>>, created |-> <<>>]
ValidateIdle ==
    /\ form = NoForm
    /\ clock = [now |-> 0, offset |-> 0]
    /\ hpc = "idle"
    /\ shownError = ""
    /\ searchQuery = NoQuery
PanelIdle ==
    /\ ParseIdle /\ SimIdle /\ DataIdle /\ ClusterIdle /\ FilterIdle /\ OverrideIdle
    /\ RequestsIdle /\ ValidateIdle

InitRetry == RetryInit /\ PagesIdle /\ AnalyzeIdle /\ PanelIdle

NextRetry ==
    \/ \E resp \in Responses : Fetch(resp) /\ UNCHANGED <<pageVars, analyzeVars, panelVars>>
    \/ BackoffDone /\ UNCHANGED <<pageVars, analyzeVars, panelVars>>

SpecRetry == InitRetry /\ [][NextRetry]_vars

(***************************************************************************)
(* Claims about fetchWithRetry (checked under SpecRetry)                   *)
(***************************************************************************)
\* The failures the specification calls non-transient are the 401, the 404
\* and the 403 whose remaining quota is zero; every other failure (a rejected
\* fetch, another status that is not ok, a body that is no JSON) is transient.
IsRateLimited403(resp) ==
    resp.kind = "http" /\ resp.status = 403 /\ resp.remaining = "0"
Failed(resp) ==
    resp.kind = "reject" \/ ~ResponseOk(resp.status) \/ ~resp.json
IsFatal(resp) ==
    resp.kind = "http" /\ (resp.status \in {401, 404} \/ IsRateLimited403(resp))
IsTransient(resp) == Failed(resp) /\ ~IsFatal(resp)
FatalName(resp) ==
    CASE resp.status = 401 -> "AuthRequired"
      [] resp.status = 404 -> "NotFound"
      [] OTHER             -> "RateLimitExceeded"

\* C3: fetchWithRetry issues at most 3 requests; a transient failure on
\* attempt k (k = 1, 2) is followed by a wait of k seconds and then another
\* attempt; a failure on the third attempt is thrown to the caller; a
\* successful attempt returns its body at once, with no request after it.
C3_RetryBudget ==
    /\ Len(sent) <= 3
    /\ Len(sent) = Len(responses)
    /\ fpc = "backoff" => i + 1 < retries
    /\ \A k \in 1..Len(responses) :
         /\ (IsTransient(responses[k]) /\ k < 3) =>
               /\ Len(waits) >= k
               /\ waits[k] = 1000 * k
               /\ \/ k < Len(responses)
                  \/ fpc = "backoff" /\ i = k - 1
                  \/ fpc = "fetch" /\ i = k
         /\ (Failed(responses[k]) /\ k = 3) =>
               /\ fpc = "thrown"
               /\ fetchResult.threw
               /\ Len(waits) = 2
         /\ ~Failed(responses[k]) =>
               /\ k = Len(responses)
               /\ fpc = "returned"
               /\ fetchResult = Body
               /\ Len(waits) = k - 1

\* C3 witness: three transient failures, two waits, the third failure thrown.
C3_Witness ==
    /\ fpc = "thrown"
    /\ Len(responses) = 3
    /\ \A k \in 1..3 : IsTransient(responses[k])
    /\ waits = <<1000, 2000>>

\* C4: a 401, a 404 or a rate-limited 403 response ends the call on that
\* single response: its error is thrown, no backoff wait is scheduled for it
\* and the URL is not requested again.
C4_FatalNotRetried ==
    \A k \in 1..Len(responses) :
        IsFatal(responses[k]) =>
            /\ k = Len(responses)
            /\ fpc = "thrown"
            /\ fetchResult.name = FatalName(responses[k])
            /\ Len(waits) = k - 1

\* C5: every 403 response whose remaining quota is zero makes the call fail
\* with RateLimitExceeded carrying the reset time, and a call fails with
\* RateLimitExceeded only on such a response.
C5_RateLimit403 ==
    /\ \A k \in 1..Len(responses) :
          IsRateLimited403(responses[k]) =>
              /\ fpc = "thrown"
              /\ fetchResult.name = "RateLimitExceeded"
              /\ fetchResult.resetTime >= 0
    /\ (fpc = "thrown" /\ fetchResult.name = "RateLimitExceeded") =>
          IsRateLimited403(responses[Len(responses)])

(***************************************************************************)
(* fetchAllPages                                                           *)
(***************************************************************************)
per_page  == 100
\* GitHub's search result ceiling, Math.min(data.total_count, 1000)
SearchCap == 1000
\* The hourly quota of an authenticated client, the header the server sends
Quota     == 5000

\* The pagination loop of a bare-list endpoint has no upper limit of its own:
\* the model stops asking after MaxPages pages.
MaxPages == 11

\* The items of one page: item k of page p is <<p, k>>.
Items(p, n) == [k \in 1..n |-> <<p, k>>]

\* The JSON bodies fetchWithRetry can hand back for one page.
\* (has_total is FALSE where data.total_count is undefined.)
ListData(p, n) ==
    [shape |-> "list", items |-> Items(p, n), has_total |-> FALSE, total_count |-> 0]
SearchData(p, n, total) ==
    [shape |-> "search", items |-> Items(p, n), has_total |-> TRUE, total_count |-> total]
OtherData ==
    [shape |-> "other", items |-> <<>>, has_total |-> FALSE, total_count |-> 0]

\* The page lengths a server may answer with, whatever was asked for.
ListLens   == {0, 1, 99, 100, 101}
SearchLens == {0, 1, 100}
\* The total counts a search may report.
Totals     == {0, 1, 100, 101, 250, 1000, 1500}

Servers ==
    { [shape |-> "list", total |-> 0, honest |-> FALSE] }
    \cup { [shape |-> "search", total |-> t, honest |-> FALSE] : t \in Totals }

\* An honest search server holding `total` results answers page p with its
\* slice of them, at most per_page items.
HonestLen(total, p) == Max(0, Min(per_page, total - per_page * (p - 1)))

\* What the server may answer to the request for page p.
PageData(srv, p) ==
    IF srv.shape = "list"
    THEN { ListData(p, n) : n \in ListLens } \cup {OtherData}
    ELSE IF srv.honest
    THEN { SearchData(p, HonestLen(srv.total, p), srv.total) }
    ELSE { SearchData(p, n, srv.total) : n \in SearchLens } \cup {OtherData}

\* items, as the loop body picks them out of the response
ItemsOf(data) ==
    IF data.shape = "list" THEN data.items
    ELSE IF data.shape = "search" THEN data.items
    ELSE <<>>

\* maxPages !== null: a search envelope with a total count
HasMaxPages(data) == data.shape = "search" /\ data.has_total

\* maxPages, where it is not null
MutMaxPagesOf(data) == Ceil(data.total_count, per_page)
MaxPagesOf(data) == Ceil(Min(data.total_count, SearchCap), per_page)

\* hasMore after a non-empty page; nextPage is page after page++
HasMoreAfter(data, nextPage) ==
    IF HasMaxPages(data)
    THEN nextPage <= MaxPagesOf(data)
    ELSE Len(ItemsOf(data)) = per_page

\* results after a non-empty page
MutConcat(res, items) == items \o res
Concat(res, items) == res \o items

\* One pass of the while loop: the request for `page`, fetchWithRetry's
\* answer (a body, or the error it throws after its retries) and the rest of
\* the loop body; the loop condition is evaluated in the same step.
FetchPage ==
    /\ ppc = "loop"
    /\ hasMore
    /\ page <= MaxPages
    /\ requested' = Append(requested, page)
    /\ \/ \* fetchWithRetry throws: the error leaves fetchAllPages
          /\ ppc' = "thrown"
          /\ UNCHANGED <<results, page, hasMore, rateLimitRemaining, received>>
       \/ \E data \in PageData(server, page) :
            LET items == ItemsOf(data) IN
            /\ rateLimitRemaining' = ToString(Quota - Len(requested'))
            /\ received' = Append(received, data.items)
            /\ IF Len(items) > 0
               THEN /\ results' = Concat(results, items)
                    /\ page' = page + 1
                    /\ hasMore' = HasMoreAfter(data, page + 1)
               ELSE /\ hasMore' = FALSE
                    /\ UNCHANGED <<results, page>>
            /\ ppc' = IF hasMore' THEN "loop" ELSE "returned"
    /\ UNCHANGED <<server, token, i, fpc, sent, responses, waits, fetchResult>>

PagesInit ==
    /\ server \in Servers
    /\ results = <<>>
    /\ page = 1
    /\ hasMore = TRUE
    /\ ppc = "loop"
    /\ requested = <<>>
    /\ received = <<>>

InitPages == RetryIdle /\ PagesInit /\ AnalyzeIdle /\ PanelIdle

NextPages == FetchPage /\ UNCHANGED <<analyzeVars, panelVars>>

SpecPages == InitPages /\ [][NextPages]_vars

(***************************************************************************)
(* Claims about fetchAllPages (checked under SpecPages)                    *)
(***************************************************************************)
RECURSIVE Flatten(_)
Flatten(pages) ==
    IF pages = <<>> THEN <<>> ELSE Head(pages) \o Flatten(Tail(pages))

OneTo(n) == [k \in 1..n |-> k]

\* C6 as stated: on a search envelope with total count T, at most
\* ceil(min(T,1000)/100) pages are requested and none beyond the 10th; with
\* T = 1500 and full pages exactly pages 1..10 are requested.
C6_SearchPagesAsStated ==
    server.shape = "search" =>
        /\ Len(requested) <= Ceil(Min(server.total, 1000), 100)
        /\ \A k \in 1..Len(requested) : requested[k] <= 10
        /\ (server.total = 1500 /\ ppc = "returned"
              /\ Len(results) = 100 * Len(requested)) => requested = OneTo(10)

\* C6 amended: on a search envelope with total count T, at most
\* max(1, ceil(min(T,1000)/100)) pages are requested (page 1 always is, also
\* when T = 0) and none beyond the 10th, whatever the pages hold; with
\* T = 1500 and every page full exactly pages 1..10 are requested.
C6_SearchPages ==
    server.shape = "search" =>
        /\ Len(requested) <= Max(1, Ceil(Min(server.total, 1000), 100))
        /\ \A k \in 1..Len(requested) : requested[k] <= 10
        /\ (server.total = 1500 /\ ppc = "returned"
              /\ Len(results) = 100 * Len(requested)) => requested = OneTo(10)

\* C6 witness: total count 1500, ten full pages fetched, the call returned.
C6_Witness ==
    /\ server.shape = "search"
    /\ server.total = 1500
    /\ ppc = "returned"
    /\ requested = OneTo(10)
    /\ Len(results) = 1000

\* C7: on bare-list responses the pages are requested in the order 1, 2, 3,
\* ..., no page is requested after the first one that is empty or shorter
\* than 100 items, and the value returned is the concatenation of the
\* received item lists in page order.
C7_ListPages ==
    server.shape = "list" =>
        /\ requested = OneTo(Len(requested))
        /\ \A k \in 1..Len(received) :
              Len(received[k]) < 100 => (k = Len(requested) /\ ppc = "returned")
        /\ results = Flatten(received)
        /\ ppc = "returned" => Len(received) = Len(requested)

\* C7 witness: two full pages and a short third one, then the call returned.
C7_Witness ==
    /\ server.shape = "list"
    /\ ppc = "returned"
    /\ Len(requested) = 3
    /\ Len(received[3]) = 1
    /\ Len(results) = 201

(***************************************************************************)
(* parseActionableIssue                                                    *)
(***************************************************************************)
\* A body is a sequence of symbols.  A symbol is a character the regular
\* expressions tell apart (underscore, bar, star, backquote, angle brackets,
\* space, newline), a glyph, a UTF-16 code unit of a glyph, or a word: a run
\* of other characters, no word being part of another.
NL == "\n"
Backquote == "U+0060"
IsSpace(c) == c \in {" ", NL}

\* (⚠️|🧹|💡|🔍): an alternation, each glyph matched whole
SeverityGlyphs == {"U+26A0 U+FE0F", "U+1F9F9", "U+1F4A1", "U+1F50D"}
\* [🔵🟠🟡🔴🟣]: the expression has no u flag, so the class holds the UTF-16
\* code units of the five glyphs (their common high surrogate and their low
\* surrogates) and matches one code unit.
PriorityClass == {"U+D83D", "U+DD35", "U+DFE0", "U+DFE1", "U+DD34", "U+DFE3"}

MinOf(S) == CHOOSE x \in S : \A y \in S : x <= y
MaxOf(S) == CHOOSE x \in S : \A y \in S : x >= y
\* the symbol at position q, "" past the end
At(b, q) == IF q \in 1..Len(b) THEN b[q] ELSE ""
\* b.substring(n)
Drop(b, n) == SubSeq(b, n + 1, Len(b))
\* the position after a greedy \s* that starts at p
SkipWs(b, p) == MinOf({q \in p..(Len(b) + 1) : ~IsSpace(At(b, q))} \cup {Len(b) + 1})
\* the first position from p on that holds a symbol of stop, Len(b)+1 if none
Until(b, p, stop) ==
    MinOf({q \in p..Len(b) : b[q] \in stop} \cup {Len(b) + 1})
\* str.trim()
Trim(t) ==
    LET S == {q \in 1..Len(t) : ~IsSpace(t[q])}
    IN  IF S = {} THEN <<>> ELSE SubSeq(t, MinOf(S), MaxOf(S))
\* str.indexOf(pat), as a position from 1; 0 when pat does not occur
IndexOf(t, pat) ==
    LET S == {q \in 1..(Len(t) - Len(pat) + 1) : SubSeq(t, q, q + Len(pat) - 1) = pat}
    IN  IF S = {} THEN 0 ELSE MinOf(S)
\* the symbols of t at the positions of keep, in order
RECURSIVE PickFrom(_, _, _)
PickFrom(t, keep, q) ==
    IF q > Len(t) THEN <<>>
    ELSE (IF q \in keep THEN <<t[q]>> ELSE <<>>) \o PickFrom(t, keep, q + 1)

NoMatch == [ok |-> FALSE, from |-> 0, to |-> 0, text |-> <<>>]
Match(from, to, text) == [ok |-> TRUE, from |-> from, to |-> to, text |-> text]

\* \s*([^_]+)_ at position p: the label runs to the next underscore; the
\* greedy \s* leaves it one character when the run is all white space.
LabelAt(b, p) ==
    LET e == Until(b, p, {"_"})
        w == SkipWs(b, p)
    IN  IF p > Len(b) \/ e > Len(b) \/ e = p THEN NoMatch
        ELSE Match(p, e, SubSeq(b, IF w = e THEN e - 1 ELSE w, e - 1))

\* /_(⚠️|🧹|💡|🔍)\s*([^_]+)_\s*\|\s*_([🔵🟠🟡🔴🟣])\s*([^_]+)_/ at position p
NoSeverityMatch ==
    [ok |-> FALSE, from |-> 0, to |-> 0, severity |-> <<>>, priority |-> <<>>]
SeverityMatchAt(b, p) ==
    LET l1 == LabelAt(b, p + 2)
        q1 == SkipWs(b, l1.to + 1)
        q2 == SkipWs(b, q1 + 1)
        l2 == LabelAt(b, q2 + 2)
    IN  IF /\ At(b, p) = "_"
           /\ At(b, p + 1) \in SeverityGlyphs
           /\ l1.ok
           /\ At(b, q1) = "|"
           /\ At(b, q2) = "_"
           /\ At(b, q2 + 1) \in PriorityClass
           /\ l2.ok
        THEN [ok |-> TRUE, from |-> p, to |-> l2.to,
              severity |-> l1.text, priority |-> l2.text]
        ELSE NoSeverityMatch
\* body.match(...): the leftmost match
severityMatch(b) ==
    LET S == {p \in 1..Len(b) : SeverityMatchAt(b, p).ok}
    IN  IF S = {} THEN NoSeverityMatch ELSE SeverityMatchAt(b, MinOf(S))

\* \*\*([^*]+)\*\* at position p
BoldAt(b, p) ==
    LET e == Until(b, p + 2, {"*"})
    IN  IF /\ At(b, p) = "*" /\ At(b, p + 1) = "*"
           /\ e > p + 2
           /\ At(b, e) = "*" /\ At(b, e + 1) = "*"
        THEN Match(p, e + 1, SubSeq(b, p + 2, e - 1))
        ELSE NoMatch
\* afterSeverity.match(/\*\*([^*]+)\*\*/)
boldMatch(t) ==
    LET S == {p \in 1..Len(t) : BoldAt(t, p).ok}
    IN  IF S = {} THEN NoMatch ELSE BoldAt(t, MinOf(S))

\* <\/details>\s*\n\s*\*\*([^*]+)\*\* at position p: the white space between
\* the tag and the bold span holds a newline
IssueMatchAt(b, p) ==
    LET w == SkipWs(b, p + 3)
    IN  IF /\ At(b, p) = "<" /\ At(b, p + 1) = "/details" /\ At(b, p + 2) = ">"
           /\ \E q \in (p + 3)..(w - 1) : b[q] = NL
           /\ BoldAt(b, w).ok
        THEN Match(p, BoldAt(b, w).to, BoldAt(b, w).text)
        ELSE NoMatch
issueMatch(b) ==
    LET S == {p \in 1..Len(b) : IssueMatchAt(b, p).ok}
    IN  IF S = {} THEN NoMatch ELSE IssueMatchAt(b, MinOf(S))

\* afterTitle.match(/^([\s\S]*?)(?:<details>|<!--)/): the text before the
\* first opening details tag or comment opener
DetailsDescMatch(t) ==
    LET S == {q \in 1..Len(t) :
                /\ t[q] = "<"
                /\ \/ At(t, q + 1) = "details" /\ At(t, q + 2) = ">"
                   \/ At(t, q + 1) = "!--"}
    IN  IF S = {} THEN NoMatch ELSE Match(1, MinOf(S) - 1, SubSeq(t, 1, MinOf(S) - 1))

\* str.replace(/\n{3,}/g, '\n\n'): of a run of newlines the first two stay
CollapseNewlines(t) ==
    PickFrom(t, {q \in 1..Len(t) :
                    ~(t[q] = NL /\ At(t, q - 1) = NL /\ At(t, q - 2) = NL)}, 1)

\* /^\s*\n\s*([^\n<]+)/ and its variant that also excludes the backquote, on
\* t, stop being the
\* characters the group excludes.  The first \s* ends at the last newline of
\* the leading white space that lets the rest match, the second one takes
\* what white space it can, and the group runs to the next excluded
\* character.
LineMatch(t, stop) ==
    LET w == SkipWs(t, 1)
        C == {c \in (1..(w - 1)) \X (2..w) :
                /\ t[c[1]] = NL
                /\ c[2] > c[1]
                /\ c[2] <= Len(t)
                /\ t[c[2]] \notin stop}
        m == CHOOSE c \in C : \A d \in C :
                d[1] < c[1] \/ (d[1] = c[1] /\ d[2] <= c[2])
    IN  IF C = {} THEN NoMatch
        ELSE Match(1, Until(t, m[2], stop) - 1, SubSeq(t, m[2], Until(t, m[2], stop) - 1))

\* body.replace(/<[^>]+>/g, ''): from position q on
RECURSIVE StripTags(_, _)
StripTags(b, q) ==
    IF q > Len(b) THEN <<>>
    ELSE LET e == Until(b, q + 1, {">"}) IN
         IF b[q] = "<" /\ e <= Len(b) /\ e > q + 1
         THEN StripTags(b, e + 1)
         ELSE <<b[q]>> \o StripTags(b, q + 1)
\* .replace(/[_*(backquote)]/g, '')
NotEmphasis(c) == c \notin {"_", "*", Backquote}

\* The length of a symbol in UTF-16 code units (String.length counts them).
CodeUnits(c) ==
    IF c \in {"U+26A0 U+FE0F", "U+1F9F9", "U+1F4A1", "U+1F50D"} THEN 2
    ELSE IF c \in PriorityClass \cup {"U+DE00", "U+2705", Backquote} THEN 1
    ELSE Len(c)
RECURSIVE Units(_)
Units(t) == IF t = <<>> THEN 0 ELSE CodeUnits(Head(t)) + Units(Tail(t))
\* the first n code units of a symbol that is cut
Cut(c, n) == c \o "[0:" \o ToString(n) \o "]"
TitleLimit == 100
\* lines[0].substring(0, 100) + (lines[0].length > 100 ? '...' : '')
Truncate(line) ==
    LET k    == MaxOf({q \in 0..Len(line) : Units(SubSeq(line, 1, q)) <= TitleLimit})
        rest == TitleLimit - Units(SubSeq(line, 1, k))
    IN  IF k = Len(line) THEN line
        ELSE SubSeq(line, 1, k)
               \o (IF rest = 0 THEN <<>> ELSE <<Cut(line[k + 1], rest)>>)
               \o <<"...">>

\* if (!title) { ... }: the first line of the body without tags and emphasis
FallbackTitle(b) ==
    LET cleanBody == Trim(SelectSeq(StripTags(b, 1), NotEmphasis))
    IN  IF cleanBody = <<>> THEN <<>>
        ELSE Truncate(SubSeq(cleanBody, 1, Until(cleanBody, 1, {NL}) - 1))

\* Pattern 1: the bold title after </details>, the description up to the
\* next <details> or <!--
PatternOne(b) ==
    LET im         == issueMatch(b)
        afterTitle == Drop(b, im.to)
        descMatch  == DetailsDescMatch(afterTitle)
    IN  [title |-> Trim(im.text),
         description |-> IF descMatch.ok
                         THEN CollapseNewlines(Trim(descMatch.text)) ELSE <<>>]

\* Patterns 2 and 3: the first bold span after the marker, else the first
\* line after it; the description is looked for after the first occurrence
\* of the title's text.
PatternsTwoThree(b, sm) ==
    LET afterSeverity == Drop(b, sm.to)
        bm        == boldMatch(afterSeverity)
        bold      == IF bm.ok THEN Trim(bm.text) ELSE <<>>
        textMatch == LineMatch(afterSeverity, {NL, "<"})
        title     == IF bold = <<>> /\ textMatch.ok THEN Trim(textMatch.text) ELSE bold
        descStart == IF title # <<>>
                     THEN IndexOf(afterSeverity, title) - 1 + Len(title) ELSE 0
        descMatch == LineMatch(Drop(afterSeverity, descStart), {NL, "<", Backquote})
    IN  [title |-> title,
         description |-> IF descMatch.ok THEN Trim(descMatch.text) ELSE <<>>]

\* parseActionableIssue(body); NoIssue is null
parseActionableIssue(b) ==
    IF b.isNull \/ b.text = <<>> THEN NoIssue
    ELSE LET sm == severityMatch(b.text) IN
         IF ~sm.ok THEN NoIssue
         ELSE LET td == IF issueMatch(b.text).ok THEN PatternOne(b.text)
                        ELSE PatternsTwoThree(b.text, sm)
              IN  [isNull |-> FALSE,
                   severity |-> Trim(sm.severity),
                   priority |-> Trim(sm.priority),
                   title |-> IF td.title = <<>> THEN FallbackTitle(b.text) ELSE td.title,
                   description |-> td.description,
                   accepted |-> FALSE,
                   acceptanceMethod |-> Null]

\* ---- the bodies parseActionableIssue is called with ----
RECURSIVE Phrase(_)
Phrase(ws) == IF Len(ws) <= 1 THEN ws ELSE <<Head(ws), " ">> \o Phrase(Tail(ws))
Emph(t) == <<"_">> \o t \o <<"_">>
Bold(t) == <<"*", "*">> \o t \o <<"*", "*">>
Text(t) == [isNull |-> FALSE, text |-> t]

Warning == "U+26A0 U+FE0F"              \* ⚠️
Broom   == "U+1F9F9"                    \* 🧹
Orange  == <<"U+D83D", "U+DFE0">>       \* 🟠
Blue    == <<"U+D83D", "U+DD35">>       \* 🔵
Grin    == <<"U+D83D", "U+DE00">>       \* 😀, not a priority glyph
CheckMark == "U+2705"                   \* ✅

Marker(sevGlyph, sevLabel, sep, prioGlyph, prioLabel) ==
    Emph(<<sevGlyph, " ">> \o sevLabel) \o sep \o Emph(prioGlyph \o <<" ">> \o prioLabel)

PotentialIssue == Phrase(<<"Potential", "issue">>)
AvoidUsingVar  == Phrase(<<"Avoid", "using", "var">>)
UseLetOrConst  == Phrase(<<"Use", "let", "or", "const", "instead.">>)
AddressedIn    == Phrase(<<"Addressed", "in", "commit">>)

\* the example of the README and of the specification
ExampleBody ==
    Marker(Warning, PotentialIssue, <<" ", "|", " ">>, Orange, <<"Major">>)
      \o <<NL, NL>> \o Bold(AvoidUsingVar) \o <<NL>> \o UseLetOrConst

Leads == { <<>>, <<"Summary", NL>> }
Heads ==
    { Marker(Warning, PotentialIssue, <<" ", "|", " ">>, Orange, <<"Major">>),
      Marker(Broom, <<"Nitpick">>, <<"|">>, Blue, <<"Trivial">>),
      Marker(Warning, PotentialIssue, <<" ", "|", " ">>, Grin, <<"Fun">>),
      Emph(<<Warning, " ">> \o PotentialIssue) \o <<" ", "|", " ">> \o Emph(<<"Major">>),
      Emph(<<Warning, " ">> \o PotentialIssue),
      Phrase(<<"Looks", "good">>),
      <<>> }
Seps   == { <<NL, NL>>, <<NL>>, <<" ">> }
DetailsBlock == <<"<", "details", ">", "Committable", "<", "/details", ">">>
\* a bold span that holds one space
BlankBold == Bold(<<" ">>)
Titles == { Bold(AvoidUsingVar), AvoidUsingVar,
            DetailsBlock \o <<NL, NL>> \o Bold(AvoidUsingVar), <<>>,
            BlankBold,
            AvoidUsingVar \o <<NL>> \o DetailsBlock \o <<NL>> \o BlankBold }
Descs  == { <<NL>> \o UseLetOrConst, <<NL, NL, NL, NL>> \o UseLetOrConst, <<>> }
Tails  == { <<>>,
            <<NL, CheckMark, " ">> \o AddressedIn \o <<" ", "abc123.">>,
            <<NL, "<", "!--", " ", "fingerprint", " ", "--", ">">>,
            <<NL, "<", "details", ">", "Prompt", "<", "/details", ">">> }

Bodies ==
    { Text(l \o h \o s \o t \o d \o e) :
        l \in Leads, h \in Heads, s \in Seps, t \in Titles, d \in Descs, e \in Tails }
      \cup {NoBody}

Parse ==
    /\ xpc = "call"
    /\ parsedIssue' = parseActionableIssue(commentBody)
    /\ xpc' = "returned"
    /\ UNCHANGED commentBody

ParseInit ==
    /\ commentBody \in Bodies
    /\ parsedIssue = NoIssue
    /\ xpc = "call"

InitParse ==
    /\ RetryIdle /\ PagesIdle /\ AnalyzeIdle
    /\ ParseInit /\ SimIdle /\ DataIdle /\ ClusterIdle /\ FilterIdle /\ OverrideIdle
    /\ RequestsIdle /\ ValidateIdle

NextParse ==
    Parse /\ UNCHANGED <<retryVars, pageVars, analyzeVars, simVars, dataVars, clusterVars,
                         filterVars, overrideVars, requestVars, validateVars>>

SpecParse == InitParse /\ [][NextParse]_vars

(***************************************************************************)
(* analyzePRs: the work done for one PR                                    *)
(***************************************************************************)
CODERABBIT_USERNAME == "coderabbitai[bot]"

\* What the remote side holds for one PR: the three comment lists (or the
\* failure of their fetch), the review threads (or the failure of the
\* query), whether the search item has a user, and the remaining-quota header
\* of the PR's last response.
Comment(n, login, body) == [n |-> n, login |-> login, body |-> body]
Source(items)   == [threw |-> FALSE, items |-> items]
SourceFails     == [threw |-> TRUE, items |-> <<>>]
ThreadComment(url, databaseId) == [url |-> url, databaseId |-> databaseId]
Thread(isResolved, nodes) ==
    [isResolved |-> isResolved, commentsNull |-> FALSE, nodes |-> nodes]
BrokenThread == [isResolved |-> FALSE, commentsNull |-> TRUE, nodes |-> <<>>]
Threads(nodes)  == [failed |-> FALSE, nodes |-> nodes]
ThreadsFail     == [failed |-> TRUE, nodes |-> <<>>]
PRData(reviews, reviewComments, issueComments, threads, userNull, remaining) ==
    [reviews |-> reviews, reviewComments |-> reviewComments,
     issueComments |-> issueComments, threads |-> threads,
     userNull |-> userNull, remaining |-> remaining]

Bot   == CODERABBIT_USERNAME
Human == "alice"

\* no comments at all
PRQuiet ==
    PRData(Source(<<>>), Source(<<>>), Source(<<>>), Threads(<<>>), FALSE, "4990")
\* marked comments, none of them by the bot; a bot review without a body
PRHumans ==
    PRData(Source(<<Comment(1, Human, "marked"), Comment(2, Bot, "")>>),
           Source(<<Comment(3, Human, "marked")>>), Source(<<>>),
           Threads(<<>>), FALSE, "4990")
\* bot comments without the marker
PRPlain ==
    PRData(Source(<<Comment(1, Bot, "plain")>>), Source(<<>>),
           Source(<<Comment(2, Bot, "plain"), Comment(3, Bot, Null)>>),
           Threads(<<>>), FALSE, "4990")
\* one marked inline comment, its thread resolved
PROne ==
    PRData(Source(<<>>), Source(<<Comment(1, Bot, "marked"), Comment(2, Human, "plain")>>),
           Source(<<>>),
           Threads(<<Thread(FALSE, <<ThreadComment(7, 7)>>),
                     Thread(TRUE, <<ThreadComment(1, 1)>>)>>), FALSE, "4970")
\* two marked comments and a plain one; the thread query fails
PRTwo ==
    PRData(Source(<<Comment(1, Bot, "marked")>>),
           Source(<<Comment(2, Bot, "plain"), Comment(3, Bot, "marked")>>),
           Source(<<Comment(4, Human, "marked")>>),
           ThreadsFail, FALSE, "4980")
\* a marked bot comment, but one of the three fetches fails
PRFetchFails ==
    PRData(Source(<<Comment(1, Bot, "marked")>>), Source(<<>>), SourceFails,
           Threads(<<>>), FALSE, "0")
\* a marked bot comment, and a thread whose comments are null
PRBrokenThread ==
    PRData(Source(<<>>), Source(<<Comment(1, Bot, "marked")>>), Source(<<>>),
           Threads(<<BrokenThread>>), FALSE, "4990")
\* a marked bot comment on a PR whose search item has no user
PRNoUser ==
    PRData(Source(<<>>), Source(<<>>), Source(<<Comment(1, Bot, "marked")>>),
           Threads(<<>>), TRUE, "4990")

\* three marked bot comments and their threads: a review whose id is that of
\* a comment of a resolved thread, an inline comment found by its URL in a
\* resolved thread (the thread comment carries no databaseId), and an inline
\* comment of an unresolved thread
PRThreads ==
    PRData(Source(<<Comment(1, Bot, "marked")>>),
           Source(<<Comment(2, Bot, "marked"), Comment(3, Bot, "marked")>>),
           Source(<<>>),
           Threads(<<Thread(FALSE, <<ThreadComment(3, 3), ThreadComment(8, 8)>>),
                     Thread(TRUE, <<ThreadComment(9, 9), ThreadComment(2, 0)>>),
                     Thread(TRUE, <<ThreadComment(91, 1)>>)>>), FALSE, "4980")

Scenarios == {PRQuiet, PRHumans, PRPlain, PROne, PRTwo, PRFetchFails,
              PRBrokenThread, PRNoUser, PRThreads}

\* The comment bodies of the scenarios: "marked" stands for the example
\* body, "plain" for a body without marker; what parseActionableIssue
\* returns for the two.
PlainBody    == Phrase(<<"Looks", "good">>)
MarkedParsed == parseActionableIssue(Text(ExampleBody))
PlainParsed  == parseActionableIssue(Text(PlainBody))
\* const issue = this.parseActionableIssue(comment.body); if (issue) ...
ParseMatches(body) ==
    IF body = "marked" THEN ~MarkedParsed.isNull
    ELSE IF body = "plain" THEN ~PlainParsed.isNull
    ELSE FALSE

\* fetchPRComments: the merged bot comments, [] when a fetch fails (catch)
CommentsCatch(sc) ==
    sc.reviews.threw \/ sc.reviewComments.threw \/ sc.issueComments.threw

ByBotWithBody(c) == c.login = CODERABBIT_USERNAME /\ Truthy(c.body)
ByBot(c)         == c.login = CODERABBIT_USERNAME

MergeComments(sc) ==
    SelectSeq(sc.reviews.items, ByBotWithBody)
      \o SelectSeq(sc.reviewComments.items, ByBot)
      \o SelectSeq(sc.issueComments.items, ByBot)

fetchPRComments(sc) == IF CommentsCatch(sc) THEN <<>> ELSE MergeComments(sc)

\* fetchGraphQLThreads: the thread nodes, [] when the query fails
fetchGraphQLThreads(sc) == IF sc.threads.failed THEN <<>> ELSE sc.threads.nodes

\* threads.find(thread => thread.comments.nodes.some(...)): the first thread
\* holding the comment; evaluating a thread whose comments are null throws.
RECURSIVE MutFindThread(_, _)
MutFindThread(threads, c) ==
    IF threads = <<>> THEN [threw |-> FALSE, found |-> FALSE, isResolved |-> FALSE]
    ELSE LET t == Head(threads) IN
         IF t.commentsNull
         THEN [threw |-> TRUE, found |-> FALSE, isResolved |-> FALSE]
         ELSE IF \E k \in 1..Len(t.nodes) : t.nodes[k].url = c.n
         THEN [threw |-> FALSE, found |-> TRUE, isResolved |-> t.isResolved]
         ELSE MutFindThread(Tail(threads), c)

RECURSIVE FindThread(_, _)
FindThread(threads, c) ==
    IF threads = <<>> THEN [threw |-> FALSE, found |-> FALSE, isResolved |-> FALSE]
    ELSE LET t == Head(threads) IN
         IF t.commentsNull
         THEN [threw |-> TRUE, found |-> FALSE, isResolved |-> FALSE]
         ELSE IF \E k \in 1..Len(t.nodes) :
                    t.nodes[k].url = c.n \/ t.nodes[k].databaseId = c.n
         THEN [threw |-> FALSE, found |-> TRUE, isResolved |-> t.isResolved]
         ELSE FindThread(Tail(threads), c)

\* The issue built from one comment of PR pr.
Issue(pr, c, resolved) ==
    [url |-> <<pr, c.n>>,
     accepted |-> resolved,
     acceptanceMethod |-> IF resolved THEN "graphql" ELSE Null]

\* for (const comment of comments) { ... }
RECURSIVE ExtractIssues(_, _, _, _)
ExtractIssues(pr, comments, threads, acc) ==
    IF comments = <<>> THEN [threw |-> FALSE, issues |-> acc]
    ELSE LET c == Head(comments) IN
         IF ~ParseMatches(c.body)
         THEN ExtractIssues(pr, Tail(comments), threads, acc)
         ELSE LET m == FindThread(threads, c) IN
              IF m.threw THEN [threw |-> TRUE, issues |-> acc]
              ELSE ExtractIssues(pr, Tail(comments), threads,
                                 Append(acc, Issue(pr, c, m.found /\ m.isResolved)))

PRResult(pr, issues) == [isNull |-> FALSE, number |-> pr, actionableIssues |-> issues]
Resolved(v) == [rejected |-> FALSE, value |-> v]
Rejects     == [rejected |-> TRUE, value |-> NullResult]

\* The end of the try block, x being the outcome of the loop over the comments.
AfterLoop(pr, sc, x) ==
    IF x.threw THEN Rejects
    ELSE IF Len(x.issues) > 0
    THEN IF sc.userNull THEN Rejects
         ELSE Resolved(PRResult(pr, x.issues))
    ELSE Resolved(NullResult)

\* The try block of the per-PR function.
ProcessTry(pr, sc) ==
    IF Len(fetchPRComments(sc)) = 0 THEN Resolved(NullResult)
    ELSE AfterLoop(pr, sc,
                   ExtractIssues(pr, fetchPRComments(sc), fetchGraphQLThreads(sc), <<>>))

\* catch (error) { ...; return null; }
CatchNull(r) == IF r.rejected THEN Resolved(NullResult) ELSE r

\* The per-PR function with its catch: an error becomes null.
MutProcessPR(pr, sc) == ProcessTry(pr, sc)
ProcessPR(pr, sc) == CatchNull(ProcessTry(pr, sc))

(***************************************************************************)
(* analyzePRs: search, batches, aggregation                                *)
(***************************************************************************)
BATCH_SIZE   == 20
BatchDelayMs == 50

\* The PRs of a batch settle in any order; the model lets a PR settle at most
\* MaxAhead positions ahead of the earliest PR of the batch still running.
MaxAhead == 2

\* How many closed PRs the repository may hold in the date range.
PRCounts == {0, 1, 21, 45, 101}

\* The PR with an odd number holds env[1], the PR with an even number env[2].
Envs == Scenarios \X Scenarios
ScenarioOf(e, pr) == e[2 - (pr % 2)]

\* item.number of a search item: the PR's rank in the search order
NumberOf(item) == (item[1] - 1) * per_page + item[2]

\* searchResults.map(item => ({number: item.number, ...}))
MapPRs(items) == [k \in 1..Len(items) |-> NumberOf(items[k])]

\* The argument of one progressCallback call.  has_current / has_total are
\* FALSE where the property is absent; rate tells whether the status text
\* carries the rate-limit hint.
Progress(status, hasCurrent, current, hasTotal, total, from, to, rate) ==
    [status |-> status, has_current |-> hasCurrent, current |-> current,
     has_total |-> hasTotal, total |-> total, from |-> from, to |-> to,
     rate |-> rate]
FetchingCall    == Progress("Fetching closed PRs from GitHub...", FALSE, 0, FALSE, 0, 0, 0, FALSE)
FoundCall(n)    == Progress("Found n closed PRs. Analyzing comments...", FALSE, 0, TRUE, n, 0, 0, FALSE)
ProcessingCall  == Progress("Processing results...", FALSE, 0, FALSE, 0, 0, 0, FALSE)
AnalyzingCall(idx, b, n, rem) ==
    Progress("Analyzing PRs from-to of n...", TRUE, idx + Len(b), TRUE, n,
             idx + 1, Min(idx + BATCH_SIZE, n), Truthy(rem))

\* filteredPRs.slice(i, i + BATCH_SIZE)
Slice(f, idx) == SubSeq(f, idx + 1, Min(idx + BATCH_SIZE, Len(f)))

\* (x).toFixed(1) of x = total / n, for 1 <= x <= 3: the number of tenths.
\* x is rounded to the nearest tenth, a tie upwards; a quotient q/20 that is
\* a tie on paper but whose double lies below it is rounded down.
TiesBelow == {23, 29, 33, 39, 41, 43, 51, 53}
MutTenths(total, n) == (10 * total) \div n
Tenths(total, n) ==
    IF \E q \in TiesBelow : 20 * total = q * n
    THEN (10 * total) \div n
    ELSE (20 * total + n) \div (2 * n)

\* avgIssuesPerPR
AvgIssuesPerPR(total, n) ==
    IF n > 0
    THEN ToString(Tenths(total, n) \div 10) \o "." \o ToString(Tenths(total, n) % 10)
    ELSE "0"

\* The object analyzePRs returns.
AnalysisResult(f, prs, total) ==
    [returned |-> TRUE,
     summary |-> [totalPRs |-> Len(f),
                  totalPRsWithActionableIssues |-> Len(prs),
                  totalActionableIssues |-> total,
                  avgIssuesPerPR |-> AvgIssuesPerPR(total, Len(prs))],
     pullRequests |-> prs]

SeqToSet(q) == { q[k] : k \in 1..Len(q) }

\* The head of the for loop at index idx: either the next batch is started
\* (progress call, then every PR of the batch begins its work) or the loop is
\* left, the last progress call is made and the result is returned.
LoopHead(f, idx, plog, prs, total) ==
    IF idx < Len(f)
    THEN LET b == Slice(f, idx) IN
         /\ bi' = idx
         /\ batch' = b
         /\ progress' = Append(plog, AnalyzingCall(idx, b, Len(f), rateLimitRemaining))
         /\ batchResults' = [k \in 1..Len(b) |-> NullResult]
         /\ settled' = {}
         /\ batches' = Append(batches, b)
         /\ inflight' = inflight \cup SeqToSet(b)
         /\ apc' = "inflight"
         /\ result' = result
    ELSE /\ bi' = idx
         /\ progress' = Append(plog, ProcessingCall)
         /\ result' = AnalysisResult(f, prs, total)
         /\ apc' = "done"
         /\ UNCHANGED <<batch, batchResults, settled, batches, inflight>>

\* analyzePRs is called: the first progress call, then the search begins.
AnalyzeStart ==
    /\ apc = "start"
    /\ progress' = Append(progress, FetchingCall)
    /\ apc' = "search"
    /\ UNCHANGED <<retryVars, pageVars, env, filteredPRs, bi, batch, batchResults,
                   settled, prsWithIssues, totalActionableIssues, processedCount,
                   result, batches, inflight, processed, delays>>

\* One page of the search, fetched by fetchAllPages.
SearchPage ==
    /\ apc = "search"
    /\ FetchPage
    /\ UNCHANGED analyzeVars

\* catch (error) { throw error; }
MutAnalyzeCatch == "done"
AnalyzeCatch == "failed"

\* fetchAllPages threw: the error leaves analyzePRs.
SearchThrows ==
    /\ apc = "search"
    /\ ppc = "thrown"
    /\ apc' = AnalyzeCatch
    /\ UNCHANGED <<retryVars, pageVars, env, filteredPRs, bi, batch, batchResults,
                   settled, prsWithIssues, totalActionableIssues, processedCount,
                   progress, result, batches, inflight, processed, delays>>

\* fetchAllPages returned: the PR list, the second progress call and the
\* head of the batch loop.
SearchDone ==
    /\ apc = "search"
    /\ ppc = "returned"
    /\ filteredPRs' = MapPRs(results)
    /\ LoopHead(filteredPRs', 0, Append(progress, FoundCall(Len(results))),
                prsWithIssues, totalActionableIssues)
    /\ UNCHANGED <<retryVars, pageVars, env, prsWithIssues, totalActionableIssues,
                   processedCount, processed, delays>>

\* The earliest position of the batch that has not settled.
FirstRunning(done, n) ==
    CHOOSE k \in 1..n : k \notin done /\ \A j \in 1..(k - 1) : j \in done

\* The promise of position pos settles with out, its value kept in the order
\* in which the promises settle.
MutSettled(pos, out) ==
    IF out.rejected
    THEN /\ apc' = AnalyzeCatch
         /\ UNCHANGED <<batchResults, settled>>
    ELSE /\ batchResults' = [batchResults EXCEPT ![Cardinality(settled) + 1] = out.value]
         /\ settled' = settled \cup {pos}
         /\ apc' = apc

\* The promise of position pos settles with out.
Settled(pos, out) ==
    IF out.rejected
    THEN \* Promise.all rejects and the error leaves analyzePRs
         /\ apc' = AnalyzeCatch
         /\ UNCHANGED <<batchResults, settled>>
    ELSE /\ batchResults' = [batchResults EXCEPT ![pos] = out.value]
         /\ settled' = settled \cup {pos}
         /\ apc' = apc

\* The per-PR function of position pos runs to its end; its fetches leave
\* their remaining-quota header in this.rateLimitRemaining.
TaskSettles(pos) ==
    /\ apc = "inflight"
    /\ pos \in 1..Len(batch)
    /\ pos \notin settled
    /\ pos <= FirstRunning(settled, Len(batch)) + MaxAhead
    /\ rateLimitRemaining' = ScenarioOf(env, batch[pos]).remaining
    /\ inflight' = inflight \ {batch[pos]}
    /\ processed' = processed \cup {batch[pos]}
    /\ Settled(pos, ProcessPR(batch[pos], ScenarioOf(env, batch[pos])))
    /\ UNCHANGED <<token, i, fpc, sent, responses, waits, fetchResult, pageVars,
                   env, filteredPRs, bi, batch, prsWithIssues,
                   totalActionableIssues, processedCount, progress, result,
                   batches, delays>>

\* Promise.all resolves once every promise of the batch has
MutAllSettled(done, n) == done # {}
AllSettled(done, n) == done = 1..n

\* batchResults.forEach(result => { if (result) { push; total += ... } })
RECURSIVE Collect(_, _)
Collect(brs, acc) ==
    IF brs = <<>> THEN acc
    ELSE Collect(Tail(brs),
                 IF Head(brs).isNull THEN acc
                 ELSE [prs |-> Append(acc.prs, Head(brs)),
                       total |-> acc.total + Len(Head(brs).actionableIssues)])

\* The batch is complete: its results are collected, then either the pause
\* before the next batch begins or the loop ends and the result is returned.
CollectBatch ==
    /\ apc = "inflight"
    /\ AllSettled(settled, Len(batch))
    /\ LET acc == Collect(batchResults,
                          [prs |-> prsWithIssues, total |-> totalActionableIssues])
       IN  /\ prsWithIssues' = acc.prs
           /\ totalActionableIssues' = acc.total
           /\ processedCount' = processedCount + Len(batch)
           /\ IF bi + BATCH_SIZE < Len(filteredPRs)
              THEN /\ delays' = Append(delays, BatchDelayMs)
                   /\ apc' = "delay"
                   /\ UNCHANGED <<bi, batch, batchResults, settled, progress,
                                  result, batches, inflight>>
              ELSE /\ delays' = delays
                   /\ LoopHead(filteredPRs, bi + BATCH_SIZE, progress,
                               acc.prs, acc.total)
    /\ UNCHANGED <<retryVars, pageVars, env, filteredPRs, processed>>

\* The pause is over: i += BATCH_SIZE and the next pass of the loop.
DelayDone ==
    /\ apc = "delay"
    /\ LoopHead(filteredPRs, bi + BATCH_SIZE, progress, prsWithIssues,
                totalActionableIssues)
    /\ UNCHANGED <<retryVars, pageVars, env, filteredPRs, prsWithIssues,
                   totalActionableIssues, processedCount, processed, delays>>

AnalyzeInit ==
    /\ env \in Envs
    /\ apc = "start"
    /\ filteredPRs = <<>>
    /\ bi = 0
    /\ batch = <<>>
    /\ batchResults = <<>>
    /\ settled = {}
    /\ prsWithIssues = <<>>
    /\ totalActionableIssues = 0
    /\ processedCount = 0
    /\ progress = <<>>
    /\ result = NoReturn
    /\ batches = <<>>
    /\ inflight = {}
    /\ processed = {}
    /\ delays = <<>>

SearchInit ==
    /\ server \in { [shape |-> "search", total |-> n, honest |-> TRUE] : n \in PRCounts }
    /\ results = <<>>
    /\ page = 1
    /\ hasMore = TRUE
    /\ ppc = "loop"
    /\ requested = <<>>
    /\ received = <<>>

InitAnalyze == RetryIdle /\ SearchInit /\ AnalyzeInit /\ PanelIdle

NextAnalyze ==
    \/ AnalyzeStart /\ UNCHANGED panelVars
    \/ SearchPage /\ UNCHANGED panelVars
    \/ SearchThrows /\ UNCHANGED panelVars
    \/ SearchDone /\ UNCHANGED panelVars
    \/ \E pos \in 1..BATCH_SIZE : TaskSettles(pos) /\ UNCHANGED panelVars
    \/ CollectBatch /\ UNCHANGED panelVars
    \/ DelayDone /\ UNCHANGED panelVars

SpecAnalyze == InitAnalyze /\ [][NextAnalyze]_vars

(***************************************************************************)
(* Claims about analyzePRs (checked under SpecAnalyze)                     *)
(***************************************************************************)
\* What a PR holds, told from the remote data alone.
CommentFetchFails(sc) ==
    sc.reviews.threw \/ sc.reviewComments.threw \/ sc.issueComments.threw
ThreadQueryFails(sc)  == sc.threads.failed
\* processing the PR raises an exception (a thread without comments, a
\* search item without user)
ProcessingThrows(sc)  == sc \in {PRBrokenThread, PRNoUser}
\* the bot's comments that carry the marker, over the three sources
MarkedBotComments(sc) ==
    Cardinality({ <<src, k>> \in {"reviews", "reviewComments", "issueComments"} \X (1..4) :
        /\ k <= Len(sc[src].items)
        /\ sc[src].items[k].login = "coderabbitai[bot]"
        /\ sc[src].items[k].body = "marked" })
\* the issues extracted from the PR's comments
Extracted(sc) == IF CommentFetchFails(sc) THEN 0 ELSE MarkedBotComments(sc)

Found          == Flatten(received)
ReturnedPRs    == { result.pullRequests[k].number : k \in 1..Len(result.pullRequests) }
IssuesOf(pr)   ==
    LET k == CHOOSE j \in 1..Len(result.pullRequests) : result.pullRequests[j].number = pr
    IN  result.pullRequests[k].actionableIssues
Sc(pr)         == ScenarioOf(env, pr)

\* C1 as stated: once the search has succeeded no per-PR failure aborts the
\* run; every PR is processed, a result is returned, and a PR with a failed
\* comment fetch, a failed thread query or an exception contributes no issue.
C1_PerPRFailuresAsStated ==
    /\ ppc = "returned" => apc # "failed"
    /\ apc = "done" =>
          /\ result.returned
          /\ processed = SeqToSet(filteredPRs)
          /\ \A pr \in SeqToSet(filteredPRs) :
                (CommentFetchFails(Sc(pr)) \/ ThreadQueryFails(Sc(pr))
                    \/ ProcessingThrows(Sc(pr))) => pr \notin ReturnedPRs

\* C1 amended: once the search has succeeded no per-PR failure aborts the
\* run; every PR is processed and a result is returned.  A PR whose comment
\* fetch failed or whose processing threw contributes no issue; a PR whose
\* only failure is the thread query keeps its extracted issues, none of them
\* marked accepted.
C1_PerPRFailures ==
    /\ ppc = "returned" => apc # "failed"
    /\ apc = "done" =>
          /\ result.returned
          /\ processed = SeqToSet(filteredPRs)
          /\ \A pr \in SeqToSet(filteredPRs) :
                /\ (CommentFetchFails(Sc(pr)) \/ ProcessingThrows(Sc(pr)))
                      => pr \notin ReturnedPRs
                /\ (ThreadQueryFails(Sc(pr)) /\ ~CommentFetchFails(Sc(pr))
                      /\ ~ProcessingThrows(Sc(pr)) /\ Extracted(Sc(pr)) > 0)
                      => /\ pr \in ReturnedPRs
                         /\ Len(IssuesOf(pr)) = Extracted(Sc(pr))
                         /\ \A k \in 1..Len(IssuesOf(pr)) : ~IssuesOf(pr)[k].accepted

\* C1 witness: a finished run over 21 PRs in which the odd PRs failed (fetch
\* failure or exception) and the even ones are in the result.
C1_Witness ==
    /\ apc = "done"
    /\ Len(filteredPRs) = 21
    /\ CommentFetchFails(env[1]) \/ ProcessingThrows(env[1])
    /\ ReturnedPRs = { pr \in 1..21 : pr % 2 = 0 }

\* C2: when the search fails, analyzePRs fails with that error, returns
\* nothing and starts no per-PR processing.
C2_SearchFailureFatal ==
    ppc = "thrown" =>
        /\ apc \in {"search", "failed"}
        /\ ~result.returned
        /\ batches = <<>>
        /\ inflight = {}
        /\ processed = {}
        /\ prsWithIssues = <<>>

\* C2 witness: the search failed on its second page and analyzePRs threw.
C2_Witness ==
    /\ ppc = "thrown"
    /\ apc = "failed"
    /\ requested = <<1, 2>>
    /\ Len(results) = 100

Lens(bs) == [k \in 1..Len(bs) |-> Len(bs[k])]

\* C8: N PRs are processed in ceil(N/20) batches of consecutive PRs, 20 each
\* but possibly the last (45 give 20, 20, 5); a batch starts only when every
\* PR of the batch before has finished, so at most 20 PRs are in flight.
C8_Batches ==
    apc \in {"inflight", "delay", "done"} =>
        LET n == Len(filteredPRs) IN
        /\ Flatten(batches) = SubSeq(filteredPRs, 1, Len(Flatten(batches)))
        /\ \A k \in 1..Len(batches) :
              /\ Len(batches[k]) \in 1..20
              /\ k < Len(batches) => Len(batches[k]) = 20
              /\ k < Len(batches) => SeqToSet(batches[k]) \subseteq processed
        /\ apc = "done" =>
              /\ Len(batches) = Ceil(n, 20)
              /\ Flatten(batches) = filteredPRs
              /\ n = 45 => Lens(batches) = <<20, 20, 5>>
        /\ Cardinality(inflight) <= 20
        /\ inflight # {} => inflight \subseteq SeqToSet(batches[Len(batches)])

\* C8 witness: 45 PRs were processed in batches of 20, 20 and 5.
C8_Witness ==
    /\ apc = "done"
    /\ Len(filteredPRs) = 45
    /\ Lens(batches) = <<20, 20, 5>>

\* showProgress: the percentage the panel shows for one progress call
Round(a, b) == (2 * a + b) \div (2 * b)
ShowProgressPct(call) ==
    IF call.has_current /\ call.has_total
    THEN IF call.total > 0 THEN Round(call.current * 100, call.total) ELSE 0
    ELSE 0

\* C9: over all progressCallback calls of a run, first to last, the reported
\* current never decreases: once a call has reported a current, every later
\* call reports one at least as large (and the percentage the panel derives
\* from the call never goes down).
C9_CurrentMonotone ==
    \A j, k \in 1..Len(progress) :
        j < k =>
            /\ progress[j].has_current =>
                  (progress[k].has_current /\ progress[j].current <= progress[k].current)
            /\ ShowProgressPct(progress[j]) <= ShowProgressPct(progress[k])

TenthsString(t) == ToString(t \div 10) \o "." \o ToString(t % 10)

\* The PR yielded an issue: its comments were fetched, at least one of the
\* bot's comments carries the marker, and its processing did not fail (a PR
\* whose processing fails yields nothing, C1).
Yielded(pr) == Extracted(Sc(pr)) >= 1 /\ ~ProcessingThrows(Sc(pr))
Abs(x) == IF x < 0 THEN -x ELSE x

\* C10 as stated: in a returned result totalPRs is the number of PRs found,
\* pullRequests holds exactly the PRs that yielded an extracted issue, the
\* two totals are its length and the sum of its issue counts, and
\* avgIssuesPerPR is the total divided by the length, 0 when it is empty.
C10_SummaryAsStated ==
    apc = "done" =>
        LET sm == result.summary
            n  == Len(result.pullRequests)
        IN
        /\ sm.totalPRs = Len(Found)
        /\ ReturnedPRs = { pr \in SeqToSet(MapPRs(Found)) : Yielded(pr) }
        /\ sm.totalPRsWithActionableIssues = n
        /\ sm.totalActionableIssues =
              Len(Flatten([k \in 1..n |-> result.pullRequests[k].actionableIssues]))
        /\ IF n = 0 THEN sm.avgIssuesPerPR = "0"
           ELSE \E t \in 0..30 :
                   /\ sm.avgIssuesPerPR = TenthsString(t)
                   /\ t * n = 10 * sm.totalActionableIssues

RECURSIVE SumIssues(_)
SumIssues(prs) ==
    IF prs = <<>> THEN 0
    ELSE Len(Head(prs).actionableIssues) + SumIssues(Tail(prs))

\* C10 amended: in a returned result totalPRs is the number of PRs found;
\* pullRequests holds exactly the PRs that yielded at least one extracted
\* issue, each with all its extracted issues; totalPRsWithActionableIssues
\* is its length and totalActionableIssues the sum of its issue counts;
\* avgIssuesPerPR is the text of total / length rounded to one decimal place
\* (a nearest tenth, not the exact quotient), and the text 0 when no PR
\* qualifies.
C10_Summary ==
    apc = "done" =>
        LET sm == result.summary
            n  == Len(result.pullRequests)
        IN
        /\ sm.totalPRs = Len(Found)
        /\ ReturnedPRs = { pr \in SeqToSet(MapPRs(Found)) : Yielded(pr) }
        /\ \A pr \in ReturnedPRs : Len(IssuesOf(pr)) = Extracted(Sc(pr))
        /\ Cardinality(ReturnedPRs) = n
        /\ sm.totalPRsWithActionableIssues = n
        /\ sm.totalActionableIssues = SumIssues(result.pullRequests)
        /\ IF n = 0 THEN sm.avgIssuesPerPR = "0"
           ELSE \E t \in 0..30 :
                   /\ sm.avgIssuesPerPR = TenthsString(t)
                   /\ 2 * Abs(10 * sm.totalActionableIssues - t * n) <= n

\* C10 witness: a result over 45 PRs, the odd ones with one issue and the
\* even ones with two, whose average 67/45 is reported as 1.5.
C10_Witness ==
    /\ apc = "done"
    /\ Len(filteredPRs) = 45
    /\ Len(result.pullRequests) = 45
    /\ result.summary.totalActionableIssues = 67
    /\ result.summary.avgIssuesPerPR = "1.5"

\* The review threads returned for the PR, and whether one of them is
\* resolved and holds a comment with the URL or the id of comment n.
ThreadsReturned(sc) == IF sc.threads.failed THEN <<>> ELSE sc.threads.nodes
ResolvedMatch(sc, n) ==
    \E t \in 1..Len(ThreadsReturned(sc)) :
        /\ ThreadsReturned(sc)[t].isResolved
        /\ \E k \in 1..Len(ThreadsReturned(sc)[t].nodes) :
              \/ ThreadsReturned(sc)[t].nodes[k].url = n
              \/ ThreadsReturned(sc)[t].nodes[k].databaseId = n

\* C11: every issue of the result whose source comment is held (by URL or by
\* id) by a resolved thread returned for its PR ends extraction accepted with
\* the method the thread query sets ('graphql'); an issue with no resolved
\* matching thread is left not accepted, without a method.
C11_ResolvedByThread ==
    apc = "done" =>
        \A pr \in ReturnedPRs : \A k \in 1..Len(IssuesOf(pr)) :
            LET issue == IssuesOf(pr)[k] IN
            IF ResolvedMatch(Sc(pr), issue.url[2])
            THEN issue.accepted /\ issue.acceptanceMethod = "graphql"
            ELSE ~issue.accepted /\ issue.acceptanceMethod = Null

\* C11 witness: a returned PR with an issue accepted through a thread comment
\* that has only the id in common with it, one accepted through the URL
\* alone, and one left unmarked because its thread is unresolved.
C11_Witness ==
    /\ apc = "done"
    /\ \E pr \in ReturnedPRs :
          /\ Sc(pr) = PRThreads
          /\ Len(IssuesOf(pr)) = 3
          /\ IssuesOf(pr)[1].accepted /\ IssuesOf(pr)[1].url[2] = 1
          /\ IssuesOf(pr)[2].accepted /\ IssuesOf(pr)[2].url[2] = 2
          /\ ~IssuesOf(pr)[3].accepted /\ IssuesOf(pr)[3].url[2] = 3

(***************************************************************************)
(* Claims about parseActionableIssue (checked under SpecParse)             *)
(***************************************************************************)
\* The marker, told from the body alone: an underscore, a severity glyph and
\* its label, an underscore, a bar, an underscore, one of the five priority
\* glyphs and its label, an underscore; white space may surround the bar and
\* precede a label, and a label is any text without underscore.
PriorityGlyphs ==
    { <<"U+D83D", lo>> : lo \in {"U+DD35", "U+DFE0", "U+DFE1", "U+DD34", "U+DFE3"} }
HasMarkerAt(t, p) ==
    LET e1 == Until(t, p + 2, {"_"})
        q1 == SkipWs(t, e1 + 1)
        q2 == SkipWs(t, q1 + 1)
        e2 == Until(t, q2 + 3, {"_"})
    IN  /\ At(t, p) = "_"
        /\ At(t, p + 1) \in SeverityGlyphs
        /\ e1 > p + 2 /\ e1 <= Len(t)
        /\ At(t, q1) = "|"
        /\ At(t, q2) = "_"
        /\ <<At(t, q2 + 1), At(t, q2 + 2)>> \in PriorityGlyphs
        /\ e2 > q2 + 3 /\ e2 <= Len(t)
HasMarker(b) == ~b.isNull /\ \E p \in 1..Len(b.text) : HasMarkerAt(b.text, p)

\* C12: parseActionableIssue returns null for every body without the
\* severity | priority marker (an empty or missing body included) and an
\* issue record for every body that holds it.
C12_NullIffMarker ==
    xpc = "returned" => (parsedIssue.isNull <=> ~HasMarker(commentBody))

\* The first non-empty line after the line that holds the title.
FirstLineAfter(t, title) ==
    LET eol  == Until(t, IndexOf(t, title) + Len(title), {NL})
        rest == Drop(t, eol)
        S    == {q \in 1..Len(rest) : ~IsSpace(rest[q])}
    IN  IF S = {} THEN <<>>
        ELSE Trim(SubSeq(rest, MinOf(S), Until(rest, MinOf(S), {NL}) - 1))
Markup == {"_", "*", "<", ">", Backquote}
Plain(t) == \A k \in 1..Len(t) : t[k] \notin Markup

\* C13: the example body parses to severity 'Potential issue', priority
\* 'Major', title 'Avoid using var' and description 'Use let or const
\* instead.'; the priority of every parsed issue holds no part of a glyph;
\* and, the title not being taken after a details block, the description is
\* the first non-empty line after the title.
C13_ExampleParse ==
    (xpc = "returned" /\ ~parsedIssue.isNull) =>
        /\ commentBody.text = ExampleBody =>
              /\ parsedIssue.severity = PotentialIssue
              /\ parsedIssue.priority = <<"Major">>
              /\ parsedIssue.title = AvoidUsingVar
              /\ parsedIssue.description = UseLetOrConst
        /\ \A k \in 1..Len(parsedIssue.priority) :
              parsedIssue.priority[k] \notin PriorityClass \cup {"U+DE00"}
        /\ ( /\ IndexOf(commentBody.text, <<"/details">>) = 0
             /\ IndexOf(commentBody.text, parsedIssue.title) > 0
             /\ Plain(FirstLineAfter(commentBody.text, parsedIssue.title)) )
           => parsedIssue.description = FirstLineAfter(commentBody.text, parsedIssue.title)

\* C14: a marked body that holds the phrase 'Addressed in commit' parses to
\* an accepted issue whose method is body detection ('body-parsing'); a
\* marked body without the phrase parses to accepted = false, no method.
HasPhrase(b) == IndexOf(b.text, AddressedIn) > 0
C14_AcceptedInBody ==
    (xpc = "returned" /\ ~parsedIssue.isNull) =>
        IF HasPhrase(commentBody)
        THEN parsedIssue.accepted /\ parsedIssue.acceptanceMethod = "body-parsing"
        ELSE ~parsedIssue.accepted /\ parsedIssue.acceptanceMethod = Null

\* the titles the four strategies yield on body b whose marker match is sm,
\* in the order of the strategies; <<>> where a strategy does not match
StrategyTitles(b, sm) ==
    <<IF issueMatch(b).ok THEN Trim(issueMatch(b).text) ELSE <<>>,
      IF boldMatch(Drop(b, sm.to)).ok THEN Trim(boldMatch(Drop(b, sm.to)).text) ELSE <<>>,
      IF LineMatch(Drop(b, sm.to), {NL, "<"}).ok
      THEN Trim(LineMatch(Drop(b, sm.to), {NL, "<"}).text) ELSE <<>>,
      FallbackTitle(b)>>
\* the first of them that is not empty, <<>> when all are
FirstTitle(ts) ==
    IF \A k \in 1..Len(ts) : ts[k] = <<>> THEN <<>>
    ELSE ts[MinOf({k \in 1..Len(ts) : ts[k] # <<>>})]

\* C31: the title of a parsed issue is the title of the first strategy, in
\* the order 1, 2, 3, 4, that yields a non-empty one.
C31_FirstStrategyWithTitle ==
    (xpc = "returned" /\ ~parsedIssue.isNull)
    => parsedIssue.title =
         FirstTitle(StrategyTitles(commentBody.text, severityMatch(commentBody.text)))

(***************************************************************************)
(* calculateSimilarity (src/extension/github-api.js, lines 849-864)        *)
(*                                                                         *)
(* A title is the sequence of its characters; a character outside ASCII is *)
(* written by its code point ("U+00EF").                                   *)
(***************************************************************************)
UpperCase == <<"A", "B", "C", "D", "E", "F", "G", "H", "I", "J", "K", "L", "M",
               "N", "O", "P", "Q", "R", "S", "T", "U", "V", "W", "X", "Y", "Z">>
LowerCase == <<"a", "b", "c", "d", "e", "f", "g", "h", "i", "j", "k", "l", "m",
               "n", "o", "p", "q", "r", "s", "t", "u", "v", "w", "x", "y", "z">>
Digits    == {"0", "1", "2", "3", "4", "5", "6", "7", "8", "9"}

\* str.toLowerCase(), for one character
toLowerCase(c) ==
    IF \E k \in 1..Len(UpperCase) : UpperCase[k] = c
    THEN LowerCase[CHOOSE k \in 1..Len(UpperCase) : UpperCase[k] = c]
    ELSE c
\* \w
IsWordChar(c) ==
    c \in SeqToSet(UpperCase) \cup SeqToSet(LowerCase) \cup Digits \cup {"_"}
\* \s
IsWhite(c) == c \in {" ", "\t", NL}

\* str.toLowerCase().replace(/[^\w\s]/g, ' ').replace(/\s+/g, ' ').trim()
\* .replace(/[^\w\s]/g, ' ')
Spaced(str) ==
    [k \in 1..Len(str) |-> IF IsWordChar(str[k]) \/ IsWhite(str[k]) THEN str[k] ELSE " "]
\* .replace(/\s+/g, ' '): each run of white space becomes the one space
\* written at its start
SingleSpaced(str) ==
    PickFrom([k \in 1..Len(str) |-> IF IsWhite(str[k]) THEN " " ELSE str[k]],
             {k \in 1..Len(str) : ~IsWhite(str[k]) \/ k = 1 \/ ~IsWhite(str[k - 1])}, 1)
normalize(str) ==
    Trim(SingleSpaced(Spaced([k \in 1..Len(str) |-> toLowerCase(str[k])])))

\* new Set(str.split(' ')): the pieces between the spaces; the empty string
\* splits into the one empty piece.
SplitSet(str) ==
    LET cuts == {0} \cup {k \in 1..Len(str) : str[k] = " "} \cup {Len(str) + 1}
    IN  {SubSeq(str, p[1] + 1, p[2] - 1) :
            p \in {c \in cuts \X cuts :
                     /\ c[1] < c[2]
                     /\ ~\E m \in cuts : c[1] < m /\ m < c[2]}}

\* intersection.size / union.size, kept as the fraction num / den
MutCalculateSimilarity(t1, t2) ==
    LET words1 == SplitSet(normalize(t1))
        words2 == SplitSet(normalize(t2))
    IN  [num |-> Cardinality({w \in words1 : w \in words2}),
         den |-> Cardinality(words1)]
calculateSimilarity(t1, t2) ==
    LET words1       == SplitSet(normalize(t1))
        words2       == SplitSet(normalize(t2))
        intersection == {w \in words1 : w \in words2}
        union        == words1 \cup words2
    IN  [num |-> Cardinality(intersection), den |-> Cardinality(union)]

\* the titles the calls are made with
TitleInLoop == <<"A", "v", "o", "i", "d", " ", "u", "s", "i", "n", "g", " ", "v", "a", "r", " ", "i", "n", " ", "l", "o", "o", "p">>
TitleHere   == <<"A", "v", "o", "i", "d", " ", "u", "s", "i", "n", "g", " ", "v", "a", "r", " ", "h", "e", "r", "e">>
TitleVar    == <<"A", "v", "o", "i", "d", " ", "u", "s", "i", "n", "g", " ", "v", "a", "r">>
TitleShout  == <<"a", "v", "o", "i", "d", " ", " ", "U", "S", "I", "N", "G", " ", "v", "a", "r", "!">>
TitleBangs  == <<"!", "!", "!">>
TitleDashes == <<" ", "-", " ">>
TitleEmpty  == <<>>
TitleLet    == <<"U", "s", "e", " ", "l", "e", "t", " ", "o", "r", " ", "c", "o", "n", "s", "t">>
TitleRepeat == <<"v", "a", "r", " ", "v", "a", "r", " ", "v", "a", "r">>
TitleNone   == <<"(", "N", "o", " ", "t", "i", "t", "l", "e", ")">>
TitleAccent == <<"N", "a", "U+00EF", "v", "e", " ", "v", "a", "r", " ", "c", "h", "e", "c", "k">>
TitleSnake  == <<"u", "s", "e", " ", "s", "n", "a", "k", "e", "_", "c", "a", "s", "e", " ", "2", "x">>
SimTitles == {TitleInLoop, TitleHere, TitleVar, TitleShout, TitleBangs, TitleDashes, TitleEmpty, TitleLet, TitleRepeat, TitleNone, TitleAccent, TitleSnake}

SimInit ==
    /\ title1 \in SimTitles
    /\ title2 \in SimTitles
    /\ similarity = NoSimilarity
    /\ spc = "call"

Compare ==
    /\ spc = "call"
    /\ similarity' = calculateSimilarity(title1, title2)
    /\ spc' = "returned"
    /\ UNCHANGED <<title1, title2>>

InitSimilarity ==
    /\ RetryIdle /\ PagesIdle /\ AnalyzeIdle
    /\ ParseIdle /\ SimInit /\ DataIdle /\ ClusterIdle /\ FilterIdle /\ OverrideIdle
    /\ RequestsIdle /\ ValidateIdle

NextSimilarity ==
    Compare /\ UNCHANGED <<retryVars, pageVars, analyzeVars, parseVars, dataVars, clusterVars,
                           filterVars, overrideVars, requestVars, validateVars>>

SpecSimilarity == InitSimilarity /\ [][NextSimilarity]_vars

(***************************************************************************)
(* Claims about calculateSimilarity (checked under SpecSimilarity)         *)
(***************************************************************************)
\* two fractions of the same value
SameValue(x, y) == x.num * y.den = y.num * x.den

\* C15: calculateSimilarity is symmetric, similarity(a,b) = similarity(b,a)
\* for all titles a and b, and similarity(a,a) = 1 for every non-empty
\* title a.
C15_Symmetric ==
    spc = "returned" =>
        /\ SameValue(similarity, calculateSimilarity(title2, title1))
        /\ (title1 = title2 /\ title1 # <<>>) => similarity.num = similarity.den

\* two different titles that share some of their words, not all
C15_Witness ==
    /\ spc = "returned"
    /\ title1 # title2
    /\ 0 < similarity.num
    /\ similarity.num < similarity.den

\* C16: calculateSimilarity returns 0 when both titles normalize to an empty
\* token set (empty strings, or strings made only of punctuation and white
\* space), so two such titles are never clustered together.
C16_EmptyIsZero ==
    (spc = "returned" /\ normalize(title1) = <<>> /\ normalize(title2) = <<>>)
        => similarity.num = 0

(***************************************************************************)
(* extractTitles and groupSimilarTitles                                    *)
(* (src/extension/github-api.js, lines 810-841 and 871-905)                *)
(***************************************************************************)
\* 0.6, as the fraction 3/5
MutThreshold == [num |-> 1, den |-> 2]
SIMILARITY_THRESHOLD == [num |-> 3, den |-> 5]
\* x >= t for two fractions
AtLeast(x, t) == x.num * t.den >= t.num * x.den

\* the entry pushed for one issue of one PR
Occurrence(pr, issue) ==
    [url |-> issue.url,
     prNumber |-> pr.number,
     prTitle |-> pr.title,
     priority |-> issue.priority,
     accepted |-> issue.accepted,
     acceptanceMethod |-> issue.acceptanceMethod]

\* the issues in the order the two forEach loops visit them, each with the
\* key it is filed under (issue.title || '(No title)')
Visited(d) ==
    Flatten([p \in 1..Len(d.pullRequests) |->
               [q \in 1..Len(d.pullRequests[p].actionableIssues) |->
                  LET pr    == d.pullRequests[p]
                      issue == pr.actionableIssues[q]
                  IN  [title |-> IF issue.title = <<>> THEN TitleNone ELSE issue.title,
                       occurrence |-> Occurrence(pr, issue)]]])

\* Object.entries(titleGroups).map(...): one entry per distinct title, in the
\* order the titles were first met (no title here is a canonical array index,
\* which an object would list first)
EntryOf(t, occ) ==
    [title |-> t, count |-> Len(occ), occurrences |-> [m \in 1..Len(occ) |-> occ[m].occurrence]]
EntriesOf(v, keys) ==
    [k \in 1..Len(keys) |->
       EntryOf(keys[k].title, PickFrom(v, {m \in 1..Len(v) : v[m].title = keys[k].title}, 1))]
FirstMet(v) ==
    PickFrom(v, {k \in 1..Len(v) : \A m \in 1..(k - 1) : v[m].title # v[k].title}, 1)
TitleEntries(d) == EntriesOf(Visited(d), FirstMet(Visited(d)))

\* arr.sort((a, b) => b.key - a.key): descending by key, equal keys keep their
\* order (Array.prototype.sort is stable)
MutSortDesc(s, keys) ==
    LET Before(a, b) == keys[a] > keys[b] \/ (keys[a] = keys[b] /\ a > b)
        Rank(a)      == Cardinality({b \in 1..Len(s) : Before(b, a)}) + 1
    IN  [r \in 1..Len(s) |-> s[CHOOSE a \in 1..Len(s) : Rank(a) = r]]
SortDesc(s, keys) ==
    LET Before(a, b) == keys[a] > keys[b] \/ (keys[a] = keys[b] /\ a < b)
        Rank(a)      == Cardinality({b \in 1..Len(s) : Before(b, a)}) + 1
    IN  [r \in 1..Len(s) |-> s[CHOOSE a \in 1..Len(s) : Rank(a) = r]]

RECURSIVE SumCounts(_)
SumCounts(ts) == IF ts = <<>> THEN 0 ELSE Head(ts).count + SumCounts(Tail(ts))

MutSimilarTo(titles, k, used) ==
    {j \in (k + 1)..Len(titles) :
       /\ j \notin used
       /\ \/ AtLeast(calculateSimilarity(titles[k].title, titles[j].title),
                     SIMILARITY_THRESHOLD)
          \/ \E m \in (k + 1)..Len(titles) :
                /\ m \notin used
                /\ AtLeast(calculateSimilarity(titles[k].title, titles[m].title),
                           SIMILARITY_THRESHOLD)
                /\ AtLeast(calculateSimilarity(titles[m].title, titles[j].title),
                           SIMILARITY_THRESHOLD)}

\* the later unused titles that the inner loop adds to the group of title k
SimilarTo(titles, k, used) ==
    {j \in (k + 1)..Len(titles) :
       /\ j \notin used
       /\ AtLeast(calculateSimilarity(titles[k].title, titles[j].title),
                  SIMILARITY_THRESHOLD)}
\* the group of title k once the titles at the positions of similar are added
GroupMembers(titles, k, similar) == <<titles[k]>> \o PickFrom(titles, similar, 1)
GroupWith(items) ==
    [mainTitle |-> items[1].title,
     totalCount |-> SumCounts(items),
     items |-> items,
     allOccurrences |-> Flatten([m \in 1..Len(items) |-> items[m].occurrences])]
GroupOf(titles, k, similar) == GroupWith(GroupMembers(titles, k, similar))

\* titles.forEach((title, i) => ...) from index k on: an unused title opens a
\* group and takes every later unused title that is similar enough to it
RECURSIVE GroupFrom(_, _, _, _)
\* the end of one pass: the titles taken and title k are used, the group is
\* pushed
MutPushGroup(titles, k, used, groups, similar) ==
    GroupFrom(titles, k + 1, used \cup {k},
              Append(groups, GroupOf(titles, k, similar)))
PushGroup(titles, k, used, groups, similar) ==
    GroupFrom(titles, k + 1, used \cup similar \cup {k},
              Append(groups, GroupOf(titles, k, similar)))
GroupFrom(titles, k, used, groups) ==
    IF k > Len(titles) THEN groups
    ELSE IF k \in used THEN GroupFrom(titles, k + 1, used, groups)
    ELSE PushGroup(titles, k, used, groups, SimilarTo(titles, k, used))

\* groups.sort((a, b) => b.totalCount - a.totalCount)
SortGroups(groups) == SortDesc(groups, [k \in 1..Len(groups) |-> groups[k].totalCount])
groupSimilarTitles(titles) == SortGroups(GroupFrom(titles, 1, {}, <<>>))

\* titles.sort((a, b) => b.count - a.count)
SortTitles(entries) == SortDesc(entries, [k \in 1..Len(entries) |-> entries[k].count])
extractTitles(d) == groupSimilarTitles(SortTitles(TitleEntries(d)))

\* the groups as a list of titles: each representative with its group's
\* count and occurrences
AsTitles(groups) ==
    [k \in 1..Len(groups) |->
       [title |-> groups[k].mainTitle,
        count |-> groups[k].totalCount,
        occurrences |-> groups[k].allOccurrences]]

\* ---- the data the titles are extracted from ----
MaxIssues == 4

IssueWith(t, u, p, a) ==
    [title |-> t, url |-> u, priority |-> p, accepted |-> a,
     acceptanceMethod |-> IF a THEN "graphql" ELSE Null]
\* the issues spread over pull requests, two to a pull request
DataWith(issues) ==
    [repository |-> "o/r",
     pullRequests |->
        [p \in 1..((Len(issues) + 1) \div 2) |->
           [number |-> p,
            title |-> "PR",
            actionableIssues |-> SubSeq(issues, 2 * p - 1, Min(2 * p, Len(issues)))]]]

ClusterTitles == {TitleInLoop, TitleHere, TitleVar, TitleLet, TitleEmpty}
TitleSeqs == UNION {[1..n -> ClusterTitles] : n \in 0..MaxIssues}
ClusterData ==
    {DataWith([k \in 1..Len(ts) |-> IssueWith(ts[k], k, "Major", FALSE)]) : ts \in TitleSeqs}

ClusterInit ==
    /\ currentData \in ClusterData
    /\ titleGroups = <<>>
    /\ regrouped = <<>>
    /\ cpc = "call"

Extract ==
    /\ cpc = "call"
    /\ titleGroups' = extractTitles(currentData)
    /\ cpc' = "returned"
    /\ UNCHANGED <<currentData, regrouped>>

Regroup ==
    /\ cpc = "returned"
    /\ regrouped' = groupSimilarTitles(AsTitles(titleGroups))
    /\ cpc' = "regrouped"
    /\ UNCHANGED <<currentData, titleGroups>>

InitCluster ==
    /\ RetryIdle /\ PagesIdle /\ AnalyzeIdle
    /\ ParseIdle /\ SimIdle /\ ClusterInit /\ FilterIdle /\ OverrideIdle
    /\ RequestsIdle /\ ValidateIdle

NextCluster ==
    \/ Extract /\ UNCHANGED <<retryVars, pageVars, analyzeVars, parseVars, simVars, filterVars,
                             overrideVars, requestVars, validateVars>>
    \/ Regroup /\ UNCHANGED <<retryVars, pageVars, analyzeVars, parseVars, simVars, filterVars,
                             overrideVars, requestVars, validateVars>>

SpecCluster == InitCluster /\ [][NextCluster]_vars

(***************************************************************************)
(* Claims about the clustering (checked under SpecCluster)                 *)
(***************************************************************************)
\* the titles of the issues of the data, in order
IssueTitles(d) == LET v == Visited(d) IN [k \in 1..Len(v) |-> v[k].title]
\* the data holds one issue of each of the two titles and nothing else
OneEach(d, ta, tb) ==
    IssueTitles(d) \in {<<ta, tb>>, <<tb, ta>>}

\* C17 as stated: two issues titled 'Avoid using var in loop' and 'Avoid
\* using var here' (one occurrence each) are clustered into one group with
\* totalCount = 2, their token overlap being at least the 0.6 threshold.
C17_ExampleClusteredAsStated ==
    (cpc = "returned" /\ OneEach(currentData, TitleInLoop, TitleHere)) =>
        /\ Len(titleGroups) = 1
        /\ titleGroups[1].totalCount = 2
        /\ AtLeast(calculateSimilarity(TitleInLoop, TitleHere), SIMILARITY_THRESHOLD)

\* C17 (amended): 'Avoid using var in loop' and 'Avoid using var here' share
\* three of their six distinct tokens (0.5, below the 0.6 threshold), so one
\* occurrence of each gives two groups of totalCount 1, in the order of the
\* issues; a pair that reaches the threshold, 'Avoid using var here' and
\* 'Avoid using var' (3 of 4 tokens), is clustered into one group with
\* totalCount = 2 under the title met first.
C17_ExampleClustered ==
    /\ (cpc = "returned" /\ OneEach(currentData, TitleInLoop, TitleHere)) =>
          /\ calculateSimilarity(TitleInLoop, TitleHere) = [num |-> 3, den |-> 6]
          /\ Len(titleGroups) = 2
          /\ \A k \in 1..2 :
                /\ titleGroups[k].totalCount = 1
                /\ titleGroups[k].mainTitle = IssueTitles(currentData)[k]
    /\ (cpc = "returned" /\ OneEach(currentData, TitleHere, TitleVar)) =>
          /\ calculateSimilarity(TitleHere, TitleVar) = [num |-> 3, den |-> 4]
          /\ Len(titleGroups) = 1
          /\ titleGroups[1].totalCount = 2
          /\ titleGroups[1].mainTitle = IssueTitles(currentData)[1]

C17_Witness ==
    /\ cpc = "returned"
    /\ IssueTitles(currentData) = <<TitleInLoop, TitleHere>>
    /\ Len(titleGroups) = 2

\* C18: re-clustering the ordered list of representatives produced by
\* groupSimilarTitles (each representative carrying its group's count and
\* occurrences) yields identical groups: no two representatives are merged,
\* each representative stays the representative of its own group, and the
\* group order is unchanged.
C18_Idempotent ==
    cpc = "regrouped" =>
        /\ Len(regrouped) = Len(titleGroups)
        /\ \A k \in 1..Len(titleGroups) :
              /\ regrouped[k].mainTitle = titleGroups[k].mainTitle
              /\ regrouped[k].totalCount = titleGroups[k].totalCount
              /\ regrouped[k].allOccurrences = titleGroups[k].allOccurrences
              /\ Len(regrouped[k].items) = 1

\* three groups, two of them with the same total, one of them a cluster of
\* several titles
C18_Witness ==
    /\ cpc = "regrouped"
    /\ Len(titleGroups) = 3
    /\ \E k \in 1..2 : titleGroups[k].totalCount = titleGroups[k + 1].totalCount
    /\ \E k \in 1..3 : Len(titleGroups[k].items) > 1

\* the titles handed to groupSimilarTitles, and whether two of them are
\* similar enough
GroupedTitles(d) == SortTitles(TitleEntries(d))
Near(ta, tb) == AtLeast(calculateSimilarity(ta.title, tb.title), SIMILARITY_THRESHOLD)
\* the title is the representative of a group; it is in the group of rep
IsRepresentative(groups, t) == \E g \in 1..Len(groups) : groups[g].items[1] = t
InGroupOf(groups, rep, t) ==
    \E g \in 1..Len(groups) :
        /\ groups[g].items[1] = rep
        /\ \E m \in 1..Len(groups[g].items) : groups[g].items[m] = t
\* the earlier representatives the title at position j is similar enough to
NearRepresentatives(groups, ts, j) ==
    {k \in 1..(j - 1) : IsRepresentative(groups, ts[k]) /\ Near(ts[k], ts[j])}

\* C32: a title that is similar enough (>= 0.6) to no earlier representative
\* is a representative; any other title is a member of the group of the
\* earliest representative it is similar enough to, and of no other group,
\* whatever its similarity to the members of the groups.
C32_OnlyRepresentativesCompared ==
    cpc = "returned" =>
        \A j \in 1..Len(GroupedTitles(currentData)) :
            IF NearRepresentatives(titleGroups, GroupedTitles(currentData), j) = {}
            THEN IsRepresentative(titleGroups, GroupedTitles(currentData)[j])
            ELSE \A k \in 1..Len(GroupedTitles(currentData)) :
                    InGroupOf(titleGroups, GroupedTitles(currentData)[k],
                              GroupedTitles(currentData)[j])
                    <=> k = MinOf(NearRepresentatives(titleGroups,
                                                      GroupedTitles(currentData), j))

\* 'Avoid using var in loop' takes 'Avoid using var' (0.6); 'Avoid using var
\* here' is below the threshold to the representative (0.5) and above it to
\* the member (0.75), and has a group of its own
C32_Witness ==
    /\ cpc = "returned"
    /\ IssueTitles(currentData) = <<TitleInLoop, TitleVar, TitleHere>>
    /\ AtLeast(calculateSimilarity(TitleVar, TitleHere), SIMILARITY_THRESHOLD)
    /\ ~AtLeast(calculateSimilarity(TitleInLoop, TitleHere), SIMILARITY_THRESHOLD)
    /\ Len(titleGroups) = 2
    /\ titleGroups[1].mainTitle = TitleInLoop /\ Len(titleGroups[1].items) = 2
    /\ titleGroups[2].mainTitle = TitleHere

\* the positions, group and member, at which the title is found in the groups
PlacesOf(groups, t) ==
    {c \in (1..Len(groups)) \X (1..MaxIssues) :
        c[2] <= Len(groups[c[1]].items) /\ groups[c[1]].items[c[2]] = t}
RECURSIVE SumTotals(_)
SumTotals(groups) ==
    IF groups = <<>> THEN 0 ELSE Head(groups).totalCount + SumTotals(Tail(groups))

PriorityButtons(d) ==
    LET v == Visited(d)
    IN  {"all"} \cup {IF v[k].occurrence.priority = "" THEN "Unknown"
                      ELSE v[k].occurrence.priority : k \in 1..Len(v)}
AcceptanceButtons == {"accepted", "not-accepted"}

\* what the click handler of the priority button p makes of the Set, and
\* whether it resets the acceptance filter
MutPriorityClicked(sel, p) ==
    IF p = "all" THEN [selected |-> {"all"}, reset |-> TRUE]
    ELSE LET toggled == IF p \in sel THEN sel \ {p} ELSE sel \cup {p}
         IN  IF toggled = {} THEN [selected |-> {"all"}, reset |-> TRUE]
             ELSE [selected |-> toggled, reset |-> FALSE]
MutPriorityNoReset(sel, p) ==
    IF p = "all" THEN [selected |-> {"all"}, reset |-> TRUE]
    ELSE LET cleared == IF "all" \in sel THEN {} ELSE sel
             toggled == IF p \in cleared THEN cleared \ {p} ELSE cleared \cup {p}
         IN  IF toggled = {} THEN [selected |-> {"all"}, reset |-> FALSE]
             ELSE [selected |-> toggled, reset |-> FALSE]
PriorityClicked(sel, p) ==
    IF p = "all" THEN [selected |-> {"all"}, reset |-> TRUE]
    ELSE LET cleared == IF "all" \in sel THEN {} ELSE sel
             toggled == IF p \in cleared THEN cleared \ {p} ELSE cleared \cup {p}
         IN  IF toggled = {} THEN [selected |-> {"all"}, reset |-> TRUE]
             ELSE [selected |-> toggled, reset |-> FALSE]

\* matchesPriority && matchesAcceptance for one occurrence
MutMatches(o, sel, st) ==
    /\ "all" \in sel \/ o.priority \in sel
    /\ IF st = "accepted" THEN o.accepted ELSE ~o.accepted
Matches(o, sel, st) ==
    /\ "all" \in sel \/ o.priority \in sel
    /\ st = "accepted" => o.accepted
    /\ st = "not-accepted" => ~o.accepted
\* group.allOccurrences.filter(...)
FilterOccurrences(all, sel, st) ==
    PickFrom(all, {m \in 1..Len(all) : Matches(all[m], sel, st)}, 1)
\* {...group, allOccurrences: filteredOccurrences, totalCount: filteredOccurrences.length}
WithOccurrences(group, filteredOccurrences) ==
    [group EXCEPT !.allOccurrences = filteredOccurrences,
                  !.totalCount = Len(filteredOccurrences)]
\* titles.map(...).filter(group => group !== null): a group left without
\* occurrences is dropped
FilterGroups(titles, sel, st) ==
    PickFrom([k \in 1..Len(titles) |->
                WithOccurrences(titles[k],
                                FilterOccurrences(titles[k].allOccurrences, sel, st))],
             {k \in 1..Len(titles) :
                FilterOccurrences(titles[k].allOccurrences, sel, st) # <<>>}, 1)
\* applyCombinedFilters: the groups handed to the display callback
applyCombinedFilters(d, sel, st) == FilterGroups(extractTitles(d), sel, st)

\* displayTitles: the occurrences it writes links for under one group; a
\* group of several titles lists each member title with its own occurrences,
\* a group of one title lists group.allOccurrences
DisplayedOccurrences(group) ==
    IF Len(group.items) > 1
    THEN Flatten([m \in 1..Len(group.items) |-> group.items[m].occurrences])
    ELSE group.allOccurrences

\* The callbacks the side panel hands to initializePriorityFilter:
\* onAcceptanceChange(status) stores the status, and both callbacks show the
\* titles filtered by the two selections.
Callbacks(sel, st) ==
    /\ selectedAcceptanceStatus' = st
    /\ titleGroups' = applyCombinedFilters(currentData, sel, st)

\* ---- the counts on the buttons ----
\* issue.priority || 'Unknown': the data-priority value of the button
PriorityLabel(priority) == IF priority = "" THEN "Unknown" ELSE priority
\* the occurrences of all groups
AllOccurrences(d) == [k \in 1..Len(Visited(d)) |-> Visited(d)[k].occurrence]
\* the if / else if on selectedAcceptanceStatus
MatchesAcceptance(o, st) ==
    /\ st = "accepted" => o.accepted
    /\ st = "not-accepted" => ~o.accepted
\* selectedPriorities.has('all') || selectedPriorities.has(occurrence.priority)
MatchesPriority(o, sel) == "all" \in sel \/ o.priority \in sel

\* initializePriorityFilter: the count of the "All" button and the count in
\* the span of each button it creates; the acceptance counts are not touched
InitialCounts(d, shown) ==
    LET occ == AllOccurrences(d) IN
    [shown EXCEPT
       !.all = Len(occ),
       !.priority = [p \in PriorityButtons(d) \ {"all"} |->
                       Cardinality({k \in 1..Len(occ) : PriorityLabel(occ[k].priority) = p})]]

\* the id of the span initializePriorityFilter creates in the button of a
\* priority: <span class="priority-count">, a class and no id
SpanId(p) == ""
\* the id the count of a priority is looked up by (the model's priorities
\* hold no white space)
PriorityCountId(priority) == "priorityCount" \o priority

\* the count written for the acceptance status st by a pass whose matching
\* occurrences are those of keep
Dimension(occ, keep, st) ==
    Cardinality({k \in keep : MatchesAcceptance(occ[k], st)})

\* updateFilterCounts: priorityCounts by the acceptance filter, written to
\* priorityCountAll and to the elements found by the priorities' ids;
\* acceptanceCounts by the priority filter, written to the three acceptance
\* elements
updateFilterCounts(d, sel, st, shown) ==
    LET occ == AllOccurrences(d)
        allPriorities == {occ[k].priority : k \in 1..Len(occ)}
        byAcceptance == {k \in 1..Len(occ) : MatchesAcceptance(occ[k], st)}
        byPriority == {k \in 1..Len(occ) : MatchesPriority(occ[k], sel)}
    IN  [all |-> Cardinality(byAcceptance),
         priority |->
            [p \in DOMAIN shown.priority |->
               IF \E q \in allPriorities : PriorityCountId(q) = SpanId(p)
               THEN LET q == CHOOSE q \in allPriorities : PriorityCountId(q) = SpanId(p)
                    IN  Cardinality({k \in byAcceptance : occ[k].priority = q})
               ELSE shown.priority[p]],
         acceptanceAll |-> Cardinality(byPriority),
         accepted |-> Dimension(occ, byPriority, "accepted"),
         notAccepted |-> Dimension(occ, byPriority, "not-accepted")]

\* ---- the bound on the analyses shown in one panel ----
MaxDisplays == 2

\* displayResults(data): the first results of the panel, or those of a later
\* analysis.  initializePriorityFilter keeps the "All" button and the two
\* acceptance buttons, with their classes and the click handlers they have,
\* builds the priority buttons anew and adds a click handler to every button.
DisplayResults(data) ==
    /\ vpc \in {"loaded", "shown"}
    /\ vpc = "loaded" => data = currentData
    /\ registrations < MaxDisplays
    /\ currentData' = data
    /\ selectedPriorities' = {"all"}
    /\ selectedAcceptanceStatus' = "all"
    /\ titleGroups' = extractTitles(data)
    /\ shownCounts' = InitialCounts(data, shownCounts)
    /\ registrations' = registrations + 1
    /\ lastClick' = NoClick
    /\ vpc' = "shown"
    /\ UNCHANGED activeAcceptance

\* The click handlers of a button run one after the other, the one added
\* first running first.  Each handler holds the Set its initialization was
\* given: only the handler added last (newest) holds the Set in use.
\* x = [selected, active, status]: the Set in use, the acceptance buttons
\* of class 'active' and the status last given to onAcceptanceChange.

\* one handler of the "All" priority button
AllHandler(x, newest) ==
    [selected |-> IF newest THEN {"all"} ELSE x.selected,
     active |-> {},
     status |-> "all"]
\* one handler of the acceptance button st
AcceptanceHandler(x, st, newest) ==
    IF st \in x.active
    THEN [selected |-> IF newest THEN {"all"} ELSE x.selected,
          active |-> x.active \ {st},
          status |-> "all"]
    ELSE [selected |-> x.selected, active |-> {st}, status |-> st]

\* the handlers k..n of a button kept since the first initialization
RECURSIVE KeptHandlers(_, _, _, _)
KeptHandlers(x, button, k, n) ==
    IF k > n THEN x
    ELSE KeptHandlers(IF button = "all" THEN AllHandler(x, k = n)
                      ELSE AcceptanceHandler(x, button, k = n),
                      button, k + 1, n)

\* the state the filter is in
Filter == [selected |-> selectedPriorities, active |-> activeAcceptance,
           status |-> selectedAcceptanceStatus]
\* the state the handlers of a click leave, shown by the last callback
Handled(after) ==
    /\ selectedPriorities' = after.selected
    /\ activeAcceptance' = after.active
    /\ Callbacks(after.selected, after.status)
    /\ shownCounts' = updateFilterCounts(currentData, after.selected, after.status,
                                         shownCounts)

\* a click on the priority button p: the "All" button carries a handler of
\* every initialization, a priority's button the handler of the last one
ClickPriority(p) ==
    /\ vpc = "shown"
    /\ p \in PriorityButtons(currentData)
    /\ IF p = "all"
       THEN /\ Handled(KeptHandlers(Filter, "all", 1, registrations))
            /\ lastClick' = [button |-> "priority", value |-> p,
                             handlers |-> registrations]
       ELSE /\ LET after == PriorityClicked(selectedPriorities, p) IN
               Handled([selected |-> after.selected,
                        active |-> IF after.reset THEN {} ELSE activeAcceptance,
                        status |-> IF after.reset THEN "all"
                                   ELSE selectedAcceptanceStatus])
            /\ lastClick' = [button |-> "priority", value |-> p, handlers |-> 1]
    /\ UNCHANGED <<currentData, vpc, registrations>>

\* a click on the acceptance button st
ClickAcceptance(st) ==
    /\ vpc = "shown"
    /\ st \in AcceptanceButtons
    /\ Handled(KeptHandlers(Filter, st, 1, registrations))
    /\ lastClick' = [button |-> "acceptance", value |-> st, handlers |-> registrations]
    /\ UNCHANGED <<currentData, vpc, registrations>>

\* ---- the analysis results shown ----
Priorities == {"Critical", "Major", "Minor", "Unknown"}

MixedCluster ==
    DataWith(<<IssueWith(TitleVar, 1, "Major", FALSE), IssueWith(TitleHere, 2, "Minor", TRUE),
               IssueWith(TitleVar, 3, "Minor", FALSE), IssueWith(TitleLet, 4, "Critical", TRUE)>>)
MixedTitle ==
    DataWith(<<IssueWith(TitleVar, 1, "Major", FALSE), IssueWith(TitleVar, 2, "Minor", TRUE)>>)
NoPriority ==
    DataWith(<<IssueWith(TitleLet, 1, "", FALSE), IssueWith(TitleLet, 2, "Major", TRUE),
               IssueWith(TitleInLoop, 3, "", TRUE)>>)
AllAlike ==
    DataWith(<<IssueWith(TitleHere, 1, "Major", TRUE), IssueWith(TitleHere, 2, "Major", TRUE)>>)
Chain ==
    DataWith(<<IssueWith(TitleInLoop, 1, "Major", FALSE), IssueWith(TitleVar, 2, "Minor", FALSE),
               IssueWith(TitleHere, 3, "Critical", TRUE)>>)
FilterData == {MixedCluster, MixedTitle, NoPriority, AllAlike, Chain, DataWith(<<>>)}

FilterInit ==
    /\ currentData \in FilterData
    /\ titleGroups = <<>>
    /\ selectedPriorities = {"all"}
    /\ selectedAcceptanceStatus = "all"
    /\ activeAcceptance = {}
    /\ lastClick = NoClick
    /\ vpc = "loaded"
    /\ shownCounts = NoCounts
    /\ registrations = 0

InitFilter ==
    /\ RetryIdle /\ PagesIdle /\ AnalyzeIdle
    /\ ParseIdle /\ SimIdle /\ ClusterIdle /\ FilterInit /\ OverrideIdle
    /\ RequestsIdle /\ ValidateIdle

NextFilter ==
    \/ \E data \in FilterData :
         DisplayResults(data)
         /\ UNCHANGED <<retryVars, pageVars, analyzeVars, parseVars, simVars, clusterVars,
                       overrideVars, requestVars, validateVars>>
    \/ \E p \in Priorities \cup {"all"} :
         ClickPriority(p)
         /\ UNCHANGED <<retryVars, pageVars, analyzeVars, parseVars, simVars, clusterVars,
                       overrideVars, requestVars, validateVars>>
    \/ \E st \in AcceptanceButtons :
         ClickAcceptance(st)
         /\ UNCHANGED <<retryVars, pageVars, analyzeVars, parseVars, simVars, clusterVars,
                       overrideVars, requestVars, validateVars>>

SpecFilter == InitFilter /\ [][NextFilter]_vars

(***************************************************************************)
(* Claims about the filters (checked under SpecFilter)                     *)
(***************************************************************************)
\* C19: for every TitleGroup handed to a consumer, as built by clustering and
\* as rebuilt after any filter change, totalCount equals the sum of the
\* occurrence counts of the group's member titles and equals the number of
\* occurrences the group lists.
C19_TotalsConsistent ==
    vpc = "shown" =>
        \A k \in 1..Len(titleGroups) :
            /\ titleGroups[k].totalCount = SumCounts(titleGroups[k].items)
            /\ titleGroups[k].totalCount = Len(titleGroups[k].allOccurrences)

\* C20: after any sequence of priority and acceptance filter clicks,
\* selectedPriorities is never empty, and 'all' is mutually exclusive with
\* specific priorities: whenever it contains 'all' it contains nothing else.
C20_SelectionShape ==
    /\ selectedPriorities # {}
    /\ "all" \in selectedPriorities => selectedPriorities = {"all"}

\* the last selected priority was clicked off and the selection fell back
\* to 'all': occurrences of other priorities are shown again
C20_Witness ==
    /\ vpc = "shown"
    /\ lastClick.button = "priority"
    /\ lastClick.value # "all"
    /\ selectedPriorities = {"all"}
    /\ \E k \in 1..Len(titleGroups) :
          \E m \in 1..Len(titleGroups[k].allOccurrences) :
             titleGroups[k].allOccurrences[m].priority \notin {lastClick.value, ""}

\* the step is the click handler of a priority button
PriorityStep == vpc = "shown" /\ lastClick'.button = "priority"
\* the step is the click handler of an acceptance button
AcceptanceStep == vpc = "shown" /\ lastClick'.button = "acceptance"

C22_AcceptanceClicks ==
    /\ [](/\ Cardinality(activeAcceptance) <= 1
          /\ activeAcceptance = {selectedAcceptanceStatus} \ {"all"})
    /\ [][AcceptanceStep =>
            IF selectedAcceptanceStatus = lastClick'.value
            THEN /\ selectedAcceptanceStatus' = "all"
                 /\ selectedPriorities' = {"all"}
            ELSE /\ selectedAcceptanceStatus' = lastClick'.value
                 /\ selectedPriorities' = selectedPriorities]_vars

\* the active acceptance button was clicked again: nothing is selected in
\* either dimension
C22_Witness ==
    /\ vpc = "shown"
    /\ lastClick.button = "acceptance"
    /\ selectedAcceptanceStatus = "all"
    /\ activeAcceptance = {}
    /\ selectedPriorities = {"all"}

\* the occurrences of the data that match the two selections
Matching(d, sel, st) ==
    LET v == Visited(d)
    IN  {v[k].occurrence : k \in {m \in 1..Len(v) : Matches(v[m].occurrence, sel, st)}}
\* the occurrences the groups list
Listed(groups) ==
    UNION {SeqToSet(groups[k].allOccurrences) : k \in 1..Len(groups)}
\* the occurrences displayTitles shows for the groups
Displayed(groups) ==
    UNION {SeqToSet(DisplayedOccurrences(groups[k])) : k \in 1..Len(groups)}

\* C23: applyCombinedFilters keeps exactly the matching occurrences: an
\* occurrence is in the filtered view iff (selectedPriorities contains 'all'
\* or contains the occurrence's priority) and (selectedAcceptance is 'all' or
\* the occurrence's accepted flag equals the requested state); no
\* non-matching occurrence is shown in any group of the view, no matching one
\* is missing, and groups left with no occurrence are removed.
C23_ExactlyMatching ==
    (vpc = "shown" /\ lastClick # NoClick) =>
        /\ Listed(titleGroups)
             = Matching(currentData, selectedPriorities, selectedAcceptanceStatus)
        /\ Displayed(titleGroups)
             = Matching(currentData, selectedPriorities, selectedAcceptanceStatus)
        /\ \A k \in 1..Len(titleGroups) : titleGroups[k].allOccurrences # <<>>

\* C24: with selectedPriorities = {all} and selectedAcceptance = all,
\* applying the filter returns every occurrence of the input unchanged: the
\* same groups, the same occurrences, the same total count as the unfiltered
\* clustering.
C24_AllIsIdentity ==
    (vpc = "shown" /\ selectedPriorities = {"all"} /\ selectedAcceptanceStatus = "all") =>
        /\ titleGroups = extractTitles(currentData)
        /\ applyCombinedFilters(currentData, {"all"}, "all") = extractTitles(currentData)

\* both selections are back at 'all' after a click, and the view holds a
\* group of several titles next to a group of one
C24_Witness ==
    /\ vpc = "shown"
    /\ lastClick.button = "acceptance"
    /\ selectedPriorities = {"all"}
    /\ selectedAcceptanceStatus = "all"
    /\ \E k \in 1..Len(titleGroups) : Len(titleGroups[k].items) > 1
    /\ \E k \in 1..Len(titleGroups) : Len(titleGroups[k].items) = 1

(***************************************************************************)
(* The manual acceptance overrides: toggleManualAcceptance and             *)
(* applyManualAcceptanceState                                              *)
(*                                                                         *)
(* The store is chrome.storage.local's object under 'manualAcceptance', a  *)
(* function from the URLs that have an entry to their entries.  Both       *)
(* functions are async.  toggleManualAcceptance reads the store, changes   *)
(* its copy, writes the copy back and only then touches currentData: the   *)
(* read and the write are two steps, and other calls may run between them. *)
(* applyManualAcceptanceState reads the store and updates the issues in    *)
(* the continuation of that read, which is one step.  The timestamp of an  *)
(* entry is read by nothing and is left out.                               *)
(***************************************************************************)

\* the toggleManualAcceptance calls that may wait for their save at once
MaxToggling == 2

\* state[url] = { accepted: true, acceptanceMethod: 'manual', timestamp }
ManualEntry == [accepted |-> TRUE, acceptanceMethod |-> "manual"]

\* if (state[url]) delete state[url]; else state[url] = {...}
Toggled(state, url) ==
    IF url \in DOMAIN state
    THEN [u \in DOMAIN state \ {url} |-> state[u]]
    ELSE [u \in DOMAIN state \cup {url} |-> IF u = url THEN ManualEntry ELSE state[u]]

\* the issues of d
IssuesIn(d) ==
    UNION {{d.pullRequests[p].actionableIssues[q] :
              q \in 1..Len(d.pullRequests[p].actionableIssues)} :
           p \in 1..Len(d.pullRequests)}

\* data.pullRequests.forEach(pr => pr.actionableIssues.forEach(issue => ...)),
\* each being what the body of the loop makes of every issue
ForEachIssue(d, each) ==
    [d EXCEPT !.pullRequests =
        [p \in 1..Len(d.pullRequests) |->
           [d.pullRequests[p] EXCEPT !.actionableIssues =
               [q \in 1..Len(d.pullRequests[p].actionableIssues) |->
                  each[d.pullRequests[p].actionableIssues[q]]]]]]

\* the body of the loop of toggleManualAcceptance, state being the copy that
\* was saved
ToggledIssue(issue, url, state) ==
    IF issue.url # url
    THEN issue
    ELSE IF url \in DOMAIN state
         THEN [issue EXCEPT !.accepted = TRUE, !.acceptanceMethod = "manual"]
         ELSE [issue EXCEPT !.accepted = FALSE, !.acceptanceMethod = Null]

MutAppliedIssue(issue, state) ==
    IF issue.url \in DOMAIN state
    THEN [issue EXCEPT !.accepted = ~issue.accepted,
                       !.acceptanceMethod = state[issue.url].acceptanceMethod]
    ELSE issue

\* the body of the loop of applyManualAcceptanceState
AppliedIssue(issue, state) ==
    IF issue.url \in DOMAIN state
    THEN [issue EXCEPT !.accepted = state[issue.url].accepted,
                       !.acceptanceMethod = state[issue.url].acceptanceMethod]
    ELSE issue

applyManualAcceptanceState(d, state) ==
    ForEachIssue(d, [issue \in IssuesIn(d) |-> AppliedIssue(issue, state)])

\* github-api.js has an applyManualAcceptanceState of its own, over the
\* object under the key 'manualAcceptanceState', whose values are the
\* decisions themselves: the body of its loop, and the function
ManualStateIssue(issue, manualState) ==
    IF issue.url \in DOMAIN manualState
    THEN [issue EXCEPT !.accepted = manualState[issue.url], !.acceptanceMethod = "manual"]
    ELSE issue

applyManualState(d, manualState) ==
    ForEachIssue(d, [issue \in IssuesIn(d) |-> ManualStateIssue(issue, manualState)])

\* the two operations that ended last, after one more ended
Ended(op, url, overlapped) ==
    /\ completed' = <<completed[2], [op |-> op, url |-> url, overlapped |-> overlapped]>>
    /\ dataBefore' = <<dataBefore[2], currentData>>
    /\ storeBefore' = <<storeBefore[2], manualAcceptance>>

\* const state = await loadManualAcceptanceState(), and what follows up to the
\* call of chrome.storage.local.set
ToggleLoads(url) ==
    /\ Len(toggling) < MaxToggling
    /\ toggling' = Append([m \in 1..Len(toggling) |-> [toggling[m] EXCEPT !.overlapped = TRUE]],
                           [url |-> url,
                            state |-> Toggled(manualAcceptance, url),
                            overlapped |-> toggling # <<>>])
    /\ UNCHANGED <<currentData, titleGroups, manualAcceptance, completed, dataBefore,
                   storeBefore, applied>>

\* the save of the k-th waiting call is done, and the call runs to its end
ToggleSaves(k) ==
    /\ k \in 1..Len(toggling)
    /\ manualAcceptance' = toggling[k].state
    /\ currentData' = ForEachIssue(currentData,
                         [issue \in IssuesIn(currentData) |->
                            ToggledIssue(issue, toggling[k].url, toggling[k].state)])
    /\ toggling' = [m \in 1..(Len(toggling) - 1) |->
                       IF m < k THEN toggling[m] ELSE toggling[m + 1]]
    /\ Ended("toggle", toggling[k].url, toggling[k].overlapped)
    /\ UNCHANGED <<titleGroups, applied>>

ApplyManualAcceptanceState ==
    /\ currentData' = applyManualAcceptanceState(currentData, manualAcceptance)
    /\ applied' = TRUE
    /\ Ended("apply", 0, FALSE)
    /\ UNCHANGED <<titleGroups, manualAcceptance, toggling>>

\* two issues of one pull request, each as the analysis left it: not
\* accepted, or accepted because its thread was resolved
OverrideURLs == {1, 2}
OverrideData ==
    {DataWith(<<IssueWith(TitleVar, 1, "Major", a1), IssueWith(TitleLet, 2, "Minor", a2)>>) :
        a1 \in BOOLEAN, a2 \in BOOLEAN}
\* the overrides earlier sessions left in the store
OverrideStores == {[u \in S |-> ManualEntry] : S \in SUBSET OverrideURLs}

\* the objects the key 'manualAcceptanceState' may hold
ManualStates == UNION {[S -> BOOLEAN] : S \in SUBSET OverrideURLs}

OverrideInit ==
    /\ currentData \in OverrideData
    /\ titleGroups = <<>>
    /\ manualAcceptance \in OverrideStores
    /\ toggling = <<>>
    /\ completed = <<NoOperation, NoOperation>>
    /\ dataBefore = <<currentData, currentData>>
    /\ storeBefore = <<manualAcceptance, manualAcceptance>>
    /\ applied = FALSE

InitOverride ==
    /\ RetryIdle /\ PagesIdle /\ AnalyzeIdle
    /\ ParseIdle /\ SimIdle /\ ClusterIdle /\ FilterIdle /\ OverrideInit
    /\ RequestsIdle /\ ValidateIdle

NextOverride ==
    \/ \E url \in OverrideURLs :
         ToggleLoads(url)
         /\ UNCHANGED <<retryVars, pageVars, analyzeVars, parseVars, simVars, clusterVars,
                        filterVars, requestVars, validateVars>>
    \/ \E k \in 1..MaxToggling :
         ToggleSaves(k)
         /\ UNCHANGED <<retryVars, pageVars, analyzeVars, parseVars, simVars, clusterVars,
                        filterVars, requestVars, validateVars>>
    \/ ApplyManualAcceptanceState
         /\ UNCHANGED <<retryVars, pageVars, analyzeVars, parseVars, simVars, clusterVars,
                        filterVars, requestVars, validateVars>>

SpecOverride == InitOverride /\ [][NextOverride]_vars

(***************************************************************************)
(* Claims about the manual overrides (checked under SpecOverride)          *)
(***************************************************************************)

\* the issue of d that has the URL
IssueAt(d, url) == CHOOSE issue \in IssuesIn(d) : issue.url = url
\* accepted and acceptanceMethod of the two issues are the same
SameAcceptance(a, b) ==
    a.accepted = b.accepted /\ a.acceptanceMethod = b.acceptanceMethod

\* a toggle of the URL during which no other toggle ran
ToggleOf(url) == [op |-> "toggle", url |-> url, overlapped |-> FALSE]

\* C25: when the last two operations that ended are toggles of the same URL,
\* one after the other, and the URL had no override before them, the
\* override is gone again and the issue's accepted and acceptanceMethod are
\* what they were before the two toggles (the automatic determination).
C25_ToggleTwiceRestores ==
    \A url \in OverrideURLs :
        (/\ completed = <<ToggleOf(url), ToggleOf(url)>>
         /\ url \notin DOMAIN storeBefore[1])
        => /\ url \notin DOMAIN manualAcceptance
           /\ SameAcceptance(IssueAt(currentData, url), IssueAt(dataBefore[1], url))

\* C26: once applyManualAcceptanceState has run and no toggle is waiting, an
\* issue has acceptanceMethod 'manual' exactly when the store has an entry
\* for its URL, and then its accepted and acceptanceMethod are the entry's.
C26_ManualIffOverride ==
    (applied /\ toggling = <<>>)
    => \A issue \in IssuesIn(currentData) :
         /\ issue.acceptanceMethod = "manual" <=> issue.url \in DOMAIN manualAcceptance
         /\ issue.url \in DOMAIN manualAcceptance
              => SameAcceptance(issue, manualAcceptance[issue.url])

\* C27: applyManualAcceptanceState never changes an issue whose URL has no
\* override, what it produced is a fixed point of it, and when it ended
\* twice in a row the second run changed nothing; the function of
\* github-api.js, applied twice with one store, gives what it gives applied
\* once, and leaves the issues without an override as they were.
C27_ApplyIdempotent ==
    /\ completed[2].op = "apply"
         => /\ \A issue \in IssuesIn(currentData) :
                 issue.url \notin DOMAIN manualAcceptance
                   => issue = IssueAt(dataBefore[2], issue.url)
            /\ applyManualAcceptanceState(currentData, manualAcceptance) = currentData
    /\ (completed[1].op = "apply" /\ completed[2].op = "apply")
         => currentData = dataBefore[2]
    /\ \A manualState \in ManualStates :
         /\ applyManualState(applyManualState(currentData, manualState), manualState)
              = applyManualState(currentData, manualState)
         /\ \A issue \in IssuesIn(currentData) :
              issue.url \notin DOMAIN manualState
                => IssueAt(applyManualState(currentData, manualState), issue.url) = issue

\* applied twice in a row with an override in the store that changed an
\* issue the analysis had left not accepted
C27_Witness ==
    /\ completed[1].op = "apply" /\ completed[2].op = "apply"
    /\ \E url \in DOMAIN manualAcceptance :
         /\ IssueAt(currentData, url).acceptanceMethod = "manual"
         /\ ~IssueAt(dataBefore[1], url).accepted
    /\ \E url \in OverrideURLs : url \notin DOMAIN manualAcceptance

(***************************************************************************)
(* The requests of an analysis and the credential they carry               *)
(*                                                                         *)
(* An analysis sends REST requests through fetchWithRetry (the search, the *)
(* comments of each pull request) and one thread query per pull request    *)
(* through fetchGraphQLThreads.  Only the Authorization header of each     *)
(* request is kept.                                                        *)
(***************************************************************************)

\* the requests of one analysis that are followed
MaxRequests == 6

\* what config.js may hold, and what the caller may hand to the constructor
\* (sidepanel.js hands nothing)
ConfigTokens == {"", "ghp_config"}
TokenArguments == {Undefined, "", "ghp_secret"}

\* constructor: token = GITHUB_TOKEN by default, this.token = token || GITHUB_TOKEN
ConstructedToken(arg, config) ==
    IF arg = Undefined
    THEN config
    ELSE IF Truthy(arg) THEN arg ELSE config

\* fetchGraphQLThreads: 'Authorization': `Bearer ${GITHUB_TOKEN}`
ThreadsAuthorization(config) == "Bearer " \o config

\* fetchWithRetry: const response = await fetch(url, { headers })
RestRequest ==
    /\ Len(requests) < MaxRequests
    /\ requests' = Append(requests, [api |-> "rest",
                                     authorization |-> AuthorizationHeader(token)])
    /\ UNCHANGED <<GITHUB_TOKEN, token>>

\* fetchGraphQLThreads: the POST to /graphql, which an analysis sends after
\* its search
GraphQLRequest ==
    /\ Len(requests) < MaxRequests
    /\ requests # <<>>
    /\ requests' = Append(requests, [api |-> "graphql",
                                     authorization |-> ThreadsAuthorization(GITHUB_TOKEN)])
    /\ UNCHANGED <<GITHUB_TOKEN, token>>

RequestsInit ==
    /\ GITHUB_TOKEN \in ConfigTokens
    /\ \E arg \in TokenArguments : token = ConstructedToken(arg, GITHUB_TOKEN)
    /\ requests = <<>>

InitRequests ==
    /\ i = 0 /\ fpc = "idle" /\ sent = <<>> /\ responses = <<>> /\ waits = <<>>
    /\ fetchResult = NoResult /\ rateLimitRemaining = Null
    /\ PagesIdle /\ AnalyzeIdle
    /\ ParseIdle /\ SimIdle /\ DataIdle /\ ClusterIdle /\ FilterIdle /\ OverrideIdle
    /\ RequestsInit /\ ValidateIdle

NextRequests ==
    \/ RestRequest
         /\ UNCHANGED <<i, fpc, sent, responses, waits, fetchResult, rateLimitRemaining,
                        pageVars, analyzeVars, parseVars, simVars, dataVars, clusterVars,
                        filterVars, overrideVars, validateVars>>
    \/ GraphQLRequest
         /\ UNCHANGED <<i, fpc, sent, responses, waits, fetchResult, rateLimitRemaining,
                        pageVars, analyzeVars, parseVars, simVars, dataVars, clusterVars,
                        filterVars, overrideVars, validateVars>>

SpecRequests == InitRequests /\ [][NextRequests]_vars

(***************************************************************************)
(* Claims about the requests (checked under SpecRequests)                  *)
(***************************************************************************)

\* the header carries the credential, under either scheme
Carries(authorization, tok) ==
    authorization \in {"token " \o tok, "Bearer " \o tok}

\* C28: every request of an analysis, REST or thread query, carries the
\* analysis's credential (this.token) when one is configured, and has no
\* Authorization header when none is.
C28_CredentialOnEveryRequest ==
    \A k \in 1..Len(requests) :
        IF Truthy(token)
        THEN Carries(requests[k].authorization, token)
        ELSE requests[k].authorization = Undefined

(***************************************************************************)
(* Claims about the state shared by the tasks of a batch (checked under    *)
(* SpecAnalyze)                                                            *)
(***************************************************************************)

\* the state of the analysis that every fetch and every per-PR task can reach
sharedVars == <<prsWithIssues, totalActionableIssues, rateLimitRemaining>>

\* C29: the state shared by the fetches and the per-PR tasks (the result
\* collection, the issue total, the fields of the GitHubAPI object) changes
\* only in steps taken while no per-PR task is in flight, or in the step
\* that ends the last task in flight: never while another task still runs.
C29_NoSharedMutationInFlight ==
    [][sharedVars' # sharedVars => (inflight = {} \/ inflight' = {})]_vars

(***************************************************************************)
(* handleAnalyze: the validation of the form                               *)
(*                                                                         *)
(* Times are whole hours since 1970-01-01T00:00Z: a date input parses to   *)
(* midnight UTC of its day, the clock is read at a full hour and the time  *)
(* zones are whole hours from UTC, so every quotient the code takes in     *)
(* milliseconds is the same quotient in hours.                             *)
(***************************************************************************)

MaxRangeDays == 90
HoursPerDay == 24

\* the days from 1970-01-01 to a day of the proleptic Gregorian calendar,
\* which is how new Date('YYYY-MM-DD') reads its argument
DaysFromCivil(date) ==
    LET y   == IF date.m <= 2 THEN date.y - 1 ELSE date.y
        era == y \div 400
        yoe == y - era * 400
        mp  == IF date.m > 2 THEN date.m - 3 ELSE date.m + 9
        doy == (153 * mp + 2) \div 5 + date.d - 1
        doe == yoe * 365 + yoe \div 4 - yoe \div 100 + doy
    IN  era * 146097 + doe - 719468

\* the calendar day of a number of days from 1970-01-01
CivilFromDays(days) ==
    LET z   == days + 719468
        era == z \div 146097
        doe == z - era * 146097
        yoe == (doe - doe \div 1460 + doe \div 36524 - doe \div 146096) \div 365
        doy == doe - (365 * yoe + yoe \div 4 - yoe \div 100)
        mp  == (5 * doy + 2) \div 153
        mm  == IF mp < 10 THEN mp + 3 ELSE mp - 9
    IN  [y |-> yoe + era * 400 + (IF mm <= 2 THEN 1 ELSE 0),
         m |-> mm,
         d |-> doy - (153 * mp + 2) \div 5 + 1]

\* isNaN(new Date(value).getTime()) of a date input: true of the empty value
IsNaN(value) == value = NoDate
\* new Date(value).getTime() of a date input that holds a date
GetTime(value) == HoursPerDay * DaysFromCivil(value)

\* date.toISOString().split('T')[0]
ISODate(time) == CivilFromDays(time \div HoursPerDay)

\* const today = new Date(); today.setHours(0, 0, 0, 0): local midnight
Today(c) == ((c.now + c.offset) \div HoursPerDay) * HoursPerDay - c.offset

\* Math.ceil((endDate - startDate) / (1000 * 60 * 60 * 24))
DaysDiff(from, to) == Ceil(to - from, HoursPerDay)

\* the validation of handleAnalyze: the message of the first check that
\* fails, "" when none does
ValidationError(f, c) ==
    IF Trim(f.organization) = <<>> \/ Trim(f.repository) = <<>>
    THEN "Please enter both organization and repository name"
    ELSE IF IsNaN(f.startDate) \/ IsNaN(f.endDate)
    THEN "Please select valid start and end dates"
    ELSE IF GetTime(f.startDate) > GetTime(f.endDate)
    THEN "Start date must be before end date"
    ELSE IF DaysDiff(GetTime(f.startDate), GetTime(f.endDate)) > MaxRangeDays
    THEN "Date range cannot exceed 90 days. Please select a shorter time period."
    ELSE IF GetTime(f.endDate) > Today(c)
    THEN "End date cannot be in the future"
    ELSE ""

\* analyzePRs: repo:${owner}/${repo} created:${startDateStr}..${endDateStr}
SearchQuery(f) ==
    [repo |-> <<Trim(f.organization), Trim(f.repository)>>,
     created |-> <<ISODate(GetTime(f.startDate)), ISODate(GetTime(f.endDate))>>]

\* the click on 'Analyze PRs', up to the start of the analysis
HandleAnalyze ==
    /\ hpc = "form"
    /\ shownError' = ValidationError(form, clock)
    /\ IF ValidationError(form, clock) # ""
       THEN hpc' = "error" /\ searchQuery' = searchQuery
       ELSE hpc' = "analyzing" /\ searchQuery' = SearchQuery(form)
    /\ UNCHANGED <<form, clock>>

\* the example of the README
Supabase == <<"s", "u", "p", "a", "b", "a", "s", "e">>
Day(y, m, d) == [y |-> y, m |-> m, d |-> d]
ReadmeExample ==
    [organization |-> Supabase, repository |-> Supabase,
     startDate |-> Day(2024, 11, 1), endDate |-> Day(2025, 2, 1)]

\* what the form may hold when the button is clicked
FormNames == {<<>>, <<" ">>, Supabase, <<" ">> \o Supabase}
FormDates == {NoDate, Day(2024, 2, 28), Day(2024, 3, 1), Day(2024, 11, 1), Day(2024, 11, 3),
              Day(2025, 1, 31), Day(2025, 2, 1), Day(2025, 2, 2)}
\* the click comes at noon UTC of 2025-02-01 or of 2026-11-03, in a browser
\* five hours behind UTC, on UTC or two hours ahead of it
Clocks ==
    {[now |-> HoursPerDay * DaysFromCivil(day) + 12, offset |-> off] :
        day \in {Day(2025, 2, 1), Day(2026, 11, 3)}, off \in {-5, 0, 2}}

ValidateInit ==
    /\ form \in [organization : FormNames, repository : FormNames,
                 startDate : FormDates, endDate : FormDates]
    /\ clock \in Clocks
    /\ hpc = "form"
    /\ shownError = ""
    /\ searchQuery = NoQuery

InitValidate ==
    /\ RetryIdle /\ PagesIdle /\ AnalyzeIdle
    /\ ParseIdle /\ SimIdle /\ DataIdle /\ ClusterIdle /\ FilterIdle /\ OverrideIdle
    /\ RequestsIdle /\ ValidateInit

NextValidate ==
    HandleAnalyze
      /\ UNCHANGED <<retryVars, pageVars, analyzeVars, parseVars, simVars, dataVars,
                     clusterVars, filterVars, overrideVars, requestVars>>

SpecValidate == InitValidate /\ [][NextValidate]_vars

(***************************************************************************)
(* Claims about handleAnalyze (checked under SpecValidate)                 *)
(***************************************************************************)

\* C30: once handleAnalyze has run on the README's example (supabase,
\* supabase, 2024-11-01, 2025-02-01), no validation error is shown and the
\* search of supabase/supabase for created:2024-11-01..2025-02-01 has started.
C30_ReadmeExamplePasses ==
    (form = ReadmeExample /\ hpc # "form")
    => /\ hpc = "analyzing"
       /\ shownError = ""
       /\ searchQuery = [repo |-> <<Supabase, Supabase>>,
                         created |-> <<Day(2024, 11, 1), Day(2025, 2, 1)>>]

\* a toggle of the URL that ran while another toggle was waiting for its save
OverlappedToggleOf(url) == [op |-> "toggle", url |-> url, overlapped |-> TRUE]

\* C36: when the last two operations that ended are toggles of two different
\* URLs that overlapped, neither URL having had an override before them, and
\* no toggle is waiting, the store holds both overrides and every issue is
\* 'manual' exactly when the store has an entry for its URL.
C36_OverlappingTogglesBothKept ==
    \A u1 \in OverrideURLs, u2 \in OverrideURLs :
        (/\ u1 # u2
         /\ completed = <<OverlappedToggleOf(u1), OverlappedToggleOf(u2)>>
         /\ toggling = <<>>
         /\ DOMAIN storeBefore[1] \cap {u1, u2} = {})
        => /\ {u1, u2} \subseteq DOMAIN manualAcceptance
           /\ \A issue \in IssuesIn(currentData) :
                issue.acceptanceMethod = "manual" <=> issue.url \in DOMAIN manualAcceptance

(***************************************************************************)
(* Claims about the progress reports and the order of the result (checked  *)
(* under SpecAnalyze)                                                      *)
(***************************************************************************)

\* C33: a progress call that reports a processed count (current) of c is
\* made only when the processing of at least c pull requests has ended.
C33_ProgressAfterBatch ==
    [][\A k \in (Len(progress) + 1)..Len(progress') :
          progress'[k].has_current => progress'[k].current <= Cardinality(processed)]_vars

\* The place of x in a sequence without repetition.
PositionIn(q, x) == CHOOSE k \in 1..Len(q) : q[k] = x
\* The PRs of prs follow one another as they do in the search result.
InSearchOrder(prs) ==
    /\ \A k \in 1..Len(prs) : prs[k].number \in SeqToSet(filteredPRs)
    /\ \A j, k \in 1..Len(prs) :
          j < k => PositionIn(filteredPRs, prs[j].number)
                     < PositionIn(filteredPRs, prs[k].number)
\* The comments of a PR as fetchPRComments merges them.
CommentNumbers(sc) ==
    [k \in 1..Len(fetchPRComments(sc)) |-> fetchPRComments(sc)[k].n]
\* The issues of a PR follow one another as their comments do in the merged list.
InCommentOrder(p) ==
    LET ns == CommentNumbers(Sc(p.number)) IN
    /\ \A k \in 1..Len(p.actionableIssues) : p.actionableIssues[k].url[2] \in SeqToSet(ns)
    /\ \A j, k \in 1..Len(p.actionableIssues) :
          j < k => PositionIn(ns, p.actionableIssues[j].url[2])
                     < PositionIn(ns, p.actionableIssues[k].url[2])

\* C37: the list of PRs with issues, as it is built and as it is returned, is
\* in the order of the search result whatever the order in which the tasks of
\* a batch settle, and the issues of each PR are in the order of its merged
\* comment list; while a batch is in flight the value of every settled task
\* sits at the position of its PR in the batch.
C37_ResultInSearchOrder ==
    /\ \A k \in 1..Len(batchResults) :
          ~batchResults[k].isNull => batchResults[k].number = batch[k]
    /\ InSearchOrder(prsWithIssues)
    /\ \A k \in 1..Len(prsWithIssues) : InCommentOrder(prsWithIssues[k])
    /\ apc = "done" => result.pullRequests = prsWithIssues
\* The first batch of 21 PRs has been collected, every PR of it holding
\* issues, and the last task to settle was not the one of the last position.
C37_Witness ==
    /\ env = <<PRThreads, PROne>>
    /\ apc = "delay"
    /\ Len(prsWithIssues) = BATCH_SIZE
    /\ rateLimitRemaining = PRThreads.remaining
    /\ Len(prsWithIssues[1].actionableIssues) = 3

(***************************************************************************)
(* Claims about the counts on the filter buttons and about a second        *)
(* analysis shown in the same panel (checked under SpecFilter)             *)
(***************************************************************************)
\* the occurrences of the data whose button is that of priority p and that
\* match the acceptance status st
OfPriority(d, p, st) ==
    LET occ == AllOccurrences(d)
    IN  {k \in 1..Len(occ) : /\ p = "all" \/ PriorityLabel(occ[k].priority) = p
                             /\ st = "all" \/ occ[k].accepted = (st = "accepted")}
\* the occurrences of the data in the acceptance state a that match the
\* priority selection sel
InState(d, a, sel) ==
    LET occ == AllOccurrences(d)
    IN  {k \in 1..Len(occ) : /\ occ[k].accepted = (a = "accepted")
                             /\ "all" \in sel \/ occ[k].priority \in sel}

\* C34: after every filter change the count shown for each priority and for
\* 'all' is the number of occurrences of that priority that match the
\* acceptance selection (0 when none does), and the count shown for each
\* acceptance state is the number of occurrences in that state that match the
\* priority selection.
C34_CountsFollowTheFilters ==
    (vpc = "shown" /\ lastClick # NoClick) =>
        /\ shownCounts.all
             = Cardinality(OfPriority(currentData, "all", selectedAcceptanceStatus))
        /\ \A p \in DOMAIN shownCounts.priority :
              shownCounts.priority[p]
                = Cardinality(OfPriority(currentData, p, selectedAcceptanceStatus))
        /\ shownCounts.accepted
             = Cardinality(InState(currentData, "accepted", selectedPriorities))
        /\ shownCounts.notAccepted
             = Cardinality(InState(currentData, "not-accepted", selectedPriorities))

\* C38: once initializePriorityFilter has run more than once on the same
\* controls, one click on an acceptance button that is not active leaves
\* exactly that status selected and the priority selection as it was, and one
\* click on the priority 'all' button is handled once: the handlers of the
\* earlier initializations do not act on the click as well.
C38_OneHandlerPerClick ==
    [][registrations > 1 =>
         /\ (AcceptanceStep /\ lastClick'.value \notin activeAcceptance) =>
               /\ selectedAcceptanceStatus' = lastClick'.value
               /\ activeAcceptance' = {lastClick'.value}
               /\ selectedPriorities' = selectedPriorities
         /\ (PriorityStep /\ lastClick'.value = "all") =>
               lastClick'.handlers = 1]_vars

====
